---- MODULE Spec2Model ----
(***************************************************************************)
(* A model of the Zed Agent Client Protocol bridge of vtcode               *)
(* (src/src/acp/zed.rs): the session map, the prompt turn (streaming       *)
(* branch and non-streaming tools loop), the tool-call lifecycle, the      *)
(* cancel notification and the notification forwarder.                     *)
(*                                                                         *)
(* The bridge runs on a single-threaded cooperative executor (LocalSet):   *)
(* every request handler is its own task (spawn_local) and the code        *)
(* between two .await points runs atomically.  One action of the model is  *)
(* therefore one such segment: it starts when the awaited future of a      *)
(* task completes and runs to the task's next .await or to its return.     *)
(***************************************************************************)
EXTENDS Integers, Sequences, FiniteSets, TLC

(***************************************************************************)
(* Bounds of the model.                                                    *)
(***************************************************************************)
\* prompt requests the client sends in one run (they may overlap)
MaxPrompts == 2
\* new_session requests the client sends in one run
MaxSessions == 1
\* tool calls the provider puts into one response
MaxCalls == 2
\* responses with tool calls the provider gives in one run
MaxToolRounds == 1
\* Token and Reasoning events the provider streams in one run
MaxStreamEvents == 2

Prompts == 1..MaxPrompts
\* raw ids of register_session: next_session_id counts from 0
SessionIds == 0..(MaxSessions - 1)

(***************************************************************************)
(* Values.  A String is a sequence of characters, an Option<T> a sequence  *)
(* of at most one T: None == <<>>, Some(x) == <<x>>.                       *)
(***************************************************************************)
None == <<>>
Some(x) == <<x>>
IsSome(o) == Len(o) > 0
Unwrap(o) == o[1]

\* the one element of a singleton; The({e(v) : v \in {value}}) is e of a
\* value that is computed once, however often e uses it
The(S) == CHOOSE v \in S : TRUE

\* the texts a provider sends as content or as a token delta
ContentTexts == {<<>>, <<"a">>}
\* the texts a provider sends as reasoning
ReasoningTexts == {<<>>, <<"r">>}

FinishReasons == {"Stop", "ToolCalls", "Length", "ContentFilter", "Error"}

\* acp::RequestPermissionOutcome as the client answers it, "TransportError"
\* standing for an Err of client.request_permission
PermissionOutcomes ==
    {"Cancelled", "allow-once", "reject-once", "other-option", "TransportError"}

\* function.name of a provider tool call: the registered tool or another one
ToolNames == {"read_file", "other_tool"}
\* function.arguments of a provider tool call: JSON with a usable path, JSON
\* without path or resolvable uri, or text that is no JSON
ToolArguments == {"path", "nopath", "notjson"}
\* name and arguments of a call; for a tool that is not registered only
\* whether the arguments are JSON makes a difference
CallShapes ==
    {c \in [name : ToolNames, arguments : ToolArguments] :
        c.name = "other_tool" => c.arguments # "nopath"}

VARIABLES
    \* ZedAgent / configuration
    config,             \* [read_file, supports_tools, supports_streaming]
    next_session_id,    \* ZedAgent.next_session_id
    messages,           \* SessionData.messages of each session
    tool_notice_sent,   \* SessionData.tool_notice_sent of each session
    cancel_flag,        \* SessionHandle.cancel_flag of each session
    \* one record per prompt request: the position of its task and its locals
    task,
    \* notification channel and forwarder task
    rx,                 \* envelopes in the unbounded channel
    forwarding,         \* the envelope whose client call the forwarder awaits
    completion,         \* completion[p]: the oneshot of p's send_update fired
    issued,             \* prompts whose send_update the client has not yet
                        \* handled, in the order of their calls
    \* the client's view and the provider's counters
    lifecycle,          \* lifecycle[p]: what the client got for p's current call
    closed,             \* ids of calls whose final update the client got
    toolRounds,         \* responses with tool calls given so far
    callsIssued,        \* tool calls the provider has issued so far
    streamEvents        \* Token/Reasoning events streamed so far

sessionVars == <<next_session_id, messages, tool_notice_sent, cancel_flag>>
channelVars == <<rx, forwarding, completion, issued>>
clientVars == <<lifecycle, closed>>
providerVars == <<toolRounds, callsIssued, streamEvents>>
vars == <<config, sessionVars, task, channelVars, clientVars, providerVars>>

(***************************************************************************)
(* Messages of a session history.  by is the prompt request that pushed    *)
(* the message (not a field of the program's Message).                     *)
(***************************************************************************)
UserMessage(p) ==
    [role |-> "User", by |-> p, tool_calls |-> <<>>, tool_call_id |-> 0]
AssistantMessage(p) ==
    [role |-> "Assistant", by |-> p, tool_calls |-> <<>>, tool_call_id |-> 0]
\* of the tool calls of an assistant message the history keeps the ids here
AssistantWithTools(p, calls) ==
    [role |-> "Assistant", by |-> p,
     tool_calls |-> calls, tool_call_id |-> 0]

\* (mutant) the result is built without the id of its call
ResultCallIdMissing(call_id) == 0

\* the id a tool response is filed under: ToolCallResult.tool_call_id
ResultCallId(call_id) == call_id

ToolResponse(p, result) ==
    [role |-> "Tool", by |-> p, tool_calls |-> <<>>, tool_call_id |-> result]

(***************************************************************************)
(* What the client receives: session notifications and the requests       *)
(* request_permission and read_text_file, with its answer to a permission  *)
(* request.  id is the tool call it is about, 0 when it is about none.     *)
(***************************************************************************)
Entry(kind) ==
    [kind |-> kind, id |-> 0, status |-> "none", tool_kind |-> "none",
     raw_input |-> "none", outcome |-> "none"]

\* zed_config.tools.read_file and the provider's supports_tools and
\* supports_streaming.  Configurations that differ only in a flag the code
\* makes no use of behave alike, and Init takes one of each: supports_tools
\* has no effect without read_file, supports_streaming none with tools allowed.
Configs ==
    {c \in [read_file : BOOLEAN, supports_tools : BOOLEAN,
            supports_streaming : BOOLEAN] :
        /\ ~c.read_file => ~c.supports_tools
        /\ (c.read_file /\ c.supports_tools) => ~c.supports_streaming}

Registered == {s \in SessionIds : s < next_session_id}

(***************************************************************************)
(* State of the vtcode-core components (declared here because every        *)
(* specification of the module fixes every variable).                      *)
(***************************************************************************)
VARIABLES
    \* OpenRouterProvider::stream: the locals of the stream generator
    stream_pc,              \* "reading", or "closed" once the generator ended
    aggregated_content,
    tool_call_builders,
    reasoning_buffer,       \* the ReasoningBuffer of stream (reasoning)
    emitted,                \* the items the consumer of the LLMStream got
    received,               \* per server index, the argument fragments sent
    payloads,               \* data payloads decoded so far
    ended_by,               \* how the body ended: "done", "eof", an error
    \* ReasoningBuffer::push as a caller uses it
    fed,                    \* the chunks pushed so far
    push_deltas,                 \* what each push returned
    \* OpenRouterProvider::send_with_tool_fallback
    http_pc,
    llm_request,            \* the LLMRequest of the call (request)
    dispatched,             \* the requests handed to dispatch_request
    responses,              \* the answers they got
    http_result,
    \* ToolRegistry::apply_policy_constraints
    policy_call,            \* name, constraints and arguments of a call
    policy_result,
    \* ContextCurator
    curation_config,        \* config
    current_phase,
    recent_errors,          \* oldest first, each the length of its message
    active_files,
    file_summaries,         \* path to the length of the summary
    curated,                \* the CuratedContext a call returns, with its budget
    \* the inline TUI: Session
    tui,                    \* the Session
    tui_event,              \* the InlineEvent the last key sent, if any
    tui_note,               \* what the last operation was and what it saw
    \* the terminal driver: drive_terminal and its two channels
    driver,
    \* run_tui: the terminal it acquires and releases around drive_terminal
    terminal,
    \* the bridge seen from one prompt turn, and from its connection
    turn,               \* the tools loop of prompt, without the history
    io_task             \* the task of the connection: "running" or "ended"

decoderVars ==
    <<stream_pc, aggregated_content, tool_call_builders, emitted, received,
      payloads, ended_by>>
pushVars == <<fed, push_deltas>>
httpVars == <<http_pc, llm_request, dispatched, responses, http_result>>
policyVars == <<policy_call, policy_result>>
curatorVars ==
    <<curation_config, current_phase, recent_errors, active_files,
      file_summaries, curated>>
tuiVars == <<tui, tui_event, tui_note>>
\* the components between the user and the provider
runVars == <<turn, io_task>>
frontVars == <<curatorVars, tuiVars, driver, terminal, runVars>>
coreVars ==
    <<decoderVars, reasoning_buffer, pushVars, httpVars, policyVars, frontVars>>

\* ReasoningBuffer::default()
DefaultReasoningBuffer == [text |-> <<>>, last_chunk |-> None]

\* the locals of stream as the generator starts
DecoderFresh ==
    /\ stream_pc = "reading"
    /\ aggregated_content = <<>>
    /\ tool_call_builders = <<>>
    /\ emitted = <<>>
    /\ received = <<>>
    /\ payloads = 0
    /\ ended_by = "none"

PushFresh == fed = <<>> /\ push_deltas = <<>>

HttpFresh ==
    /\ http_pc = "idle"
    /\ llm_request = None
    /\ dispatched = <<>>
    /\ responses = <<>>
    /\ http_result = "none"

PolicyFresh == policy_call = None /\ policy_result = None

\* the files a session works on
FilePaths == {"a.rs", "b.rs"}

\* ContextCurationConfig::default() scaled down: 12 tokens per turn, the
\* last 4 messages, up to 6 tools, up to 2 errors
CurationConfig(enabled) ==
    [enabled |-> enabled, max_tokens_per_turn |-> 12,
     preserve_recent_messages |-> 4, max_tool_descriptions |-> 6,
     include_ledger |-> TRUE, include_recent_errors |-> TRUE,
     max_recent_errors |-> 2]

\* ContextCurator::new
CuratorFresh(enabled) ==
    /\ curation_config = CurationConfig(enabled)
    /\ current_phase = "Unknown"
    /\ recent_errors = <<>>
    /\ active_files = {}
    /\ file_summaries = [path \in FilePaths |-> None]
    /\ curated = None

\* ui::INLINE_HEADER_HEIGHT and ui::INLINE_INPUT_HEIGHT, scaled down to one
\* row each
INLINE_HEADER_HEIGHT == 1
INLINE_INPUT_HEIGHT == 1

\* Session::new.  A line of the transcript is its kind, its text as the
\* lengths of the pieces between line feeds, and its revision; reflowed is
\* not a field of the program: it collects the lines the running operation
\* handed to reflow_message_lines.
NewTui(view_rows) ==
    [lines |-> <<>>,
     labels |-> [user |-> None],
     input |-> <<>>,
     cursor |-> 0,
     slash_suggestions |-> <<>>,
     slash_selected |-> None,
     input_enabled |-> TRUE,
     cursor_visible |-> TRUE,
     should_exit |-> FALSE,
     view_rows |-> IF view_rows > 2 THEN view_rows ELSE 2,
     scroll_offset |-> 0,
     transcript_rows |->
         IF view_rows - (INLINE_HEADER_HEIGHT + INLINE_INPUT_HEIGHT) > 1
         THEN view_rows - (INLINE_HEADER_HEIGHT + INLINE_INPUT_HEIGHT)
         ELSE 1,
     transcript_width |-> 0,
     cached_max_scroll_offset |-> 0,
     scroll_metrics_dirty |-> TRUE,
     transcript_cache |-> None,
     modal |-> None,
     header_rows |-> INLINE_HEADER_HEIGHT,
     line_revision_counter |-> 0,
     reflowed |-> {}]

\* the operation before the first one
NoNote == [op |-> "new", scroll_offset |-> 0, rows |-> 0, in_bounds |-> TRUE,
           touched |-> {}]

\* a session on a terminal of view_rows rows
TuiFresh(view_rows) ==
    /\ tui = NewTui(view_rows)
    /\ tui_event = None
    /\ tui_note = NoNote

\* drive_terminal about to enter its loop: both channels open and empty, the
\* session as Session::new leaves it (needs_redraw true, should_exit false)
NewDriver ==
    [pc |-> "drain", commands |-> <<>>, commands_open |-> TRUE,
     inputs |-> 0, inputs_open |-> TRUE,
     needs_redraw |-> TRUE, should_exit |-> FALSE, shutdown_handled |-> FALSE]

\* run_tui about to call enable_raw_mode, on a surface that uses the
\* alternate screen or not
NewTerminal(use_alternate) ==
    [pc |-> "setup", use_alternate |-> use_alternate, raw_mode |-> FALSE,
     raw_mode_enabled |-> FALSE, alternate_screen |-> FALSE,
     cursor_hidden |-> FALSE, finalized |-> FALSE, result |-> "none"]

DriverFresh == driver = NewDriver /\ terminal = NewTerminal(FALSE)

\* a prompt request in the loop of the non-streaming branch, awaiting its
\* first provider.generate
NewTurn ==
    [pc |-> "gen", rounds |-> 0, calls |-> <<>>, override |-> "none",
     reasoning |-> FALSE, result |-> "none"]

RunFresh == turn = NewTurn /\ io_task = "running"

FrontFresh == CuratorFresh(TRUE) /\ TuiFresh(5) /\ DriverFresh /\ RunFresh

BackFresh ==
    /\ DecoderFresh
    /\ reasoning_buffer = DefaultReasoningBuffer
    /\ PushFresh
    /\ HttpFresh
    /\ PolicyFresh

CoreFresh == BackFresh /\ FrontFresh

IdleTask ==
    [pc |-> "idle", session |-> 0, stop_reason |-> "EndTurn",
     assistant_message |-> <<>>, result |-> "none",
     tool_calls |-> <<>>, idx |-> 0, call |-> <<>>, results |-> <<>>,
     report |-> "none",
     response |-> <<>>,
     \* what happened to the turn (no locals of the code)
     provider_failed |-> FALSE, cancel_in_loop |-> FALSE,
     generate_after_cancel |-> FALSE, chunk_after_cancel |-> FALSE,
     text_streamed |-> FALSE, notice_emitted |-> FALSE]

Init ==
    /\ config \in Configs
    /\ next_session_id = 0
    /\ messages = [s \in SessionIds |-> <<>>]
    /\ tool_notice_sent = [s \in SessionIds |-> FALSE]
    /\ cancel_flag = [s \in SessionIds |-> FALSE]
    /\ task = [p \in Prompts |-> IdleTask]
    /\ rx = <<>>
    /\ forwarding = <<>>
    /\ completion = [p \in Prompts |-> FALSE]
    /\ issued = <<>>
    /\ lifecycle = [p \in Prompts |-> <<>>]
    /\ closed = {}
    /\ toolRounds = 0
    /\ callsIssued = 0
    /\ streamEvents = 0
    /\ CoreFresh

\* the bridge before any request, under one configuration
BridgeFresh ==
    /\ config = [read_file |-> TRUE, supports_tools |-> TRUE,
                 supports_streaming |-> FALSE]
    /\ next_session_id = 0
    /\ messages = [s \in SessionIds |-> <<>>]
    /\ tool_notice_sent = [s \in SessionIds |-> FALSE]
    /\ cancel_flag = [s \in SessionIds |-> FALSE]
    /\ task = [p \in Prompts |-> IdleTask]
    /\ rx = <<>>
    /\ forwarding = <<>>
    /\ completion = [p \in Prompts |-> FALSE]
    /\ issued = <<>>
    /\ lifecycle = [p \in Prompts |-> <<>>]
    /\ closed = {}
    /\ toolRounds = 0
    /\ callsIssued = 0
    /\ streamEvents = 0


(***************************************************************************)
(* The state a segment of code works on, and its write-back.  A segment is *)
(* written as a chain of operators St -> St, in the order of the           *)
(* statements it models.                                                   *)
(***************************************************************************)
Cur ==
    [task |-> task, messages |-> messages, tool_notice_sent |-> tool_notice_sent,
     cancel_flag |-> cancel_flag, rx |-> rx, completion |-> completion,
     issued |-> issued, lifecycle |-> lifecycle]

Apply(st) ==
    /\ task' = st.task
    /\ messages' = st.messages
    /\ tool_notice_sent' = st.tool_notice_sent
    /\ cancel_flag' = st.cancel_flag
    /\ rx' = st.rx
    /\ completion' = st.completion
    /\ issued' = st.issued
    /\ lifecycle' = st.lifecycle

\* what a segment of a prompt task leaves alone
TaskFrame == UNCHANGED <<config, next_session_id, forwarding, closed, coreVars>>

\* the task of p resumes when its awaited oneshot has fired
Acked(p, pc) == task[p].pc = pc /\ completion[p]

\* push_message
PushMessage(st, s, message) ==
    [st EXCEPT !.messages[s] = Append(@, message)]

\* session_update_tx.send(envelope) on the unbounded channel
Enqueue(queue, envelope) == Append(queue, envelope)

\* send_update up to its await of completion_rx: a fresh oneshot, the envelope
\* into the channel; the task then waits at pc
SendUpdate(st, p, update, pc) ==
    [st EXCEPT !.rx = Enqueue(@, [notification |-> update, completion |-> p]),
               !.issued = Append(@, p),
               !.completion[p] = FALSE,
               !.task[p].pc = pc]

\* a direct request to the client (request_permission, read_text_file), which
\* the task awaits at pc
ClientRequest(st, p, request, pc) ==
    [st EXCEPT !.lifecycle[p] = IF request.id = 0 THEN @ ELSE Append(@, request),
               !.completion[p] = FALSE,
               !.task[p].pc = pc]

\* the handler returns: the response (or error) of the prompt request
Return(st, p, result) ==
    [st EXCEPT !.task[p] =
        [IdleTask EXCEPT !.pc = "done", !.result = result,
                         !.session = st.task[p].session,
                         !.provider_failed = st.task[p].provider_failed,
                         !.cancel_in_loop = st.task[p].cancel_in_loop,
                         !.generate_after_cancel = st.task[p].generate_after_cancel,
                         !.chunk_after_cancel = st.task[p].chunk_after_cancel,
                         !.text_streamed = st.task[p].text_streamed,
                         !.notice_emitted = st.task[p].notice_emitted],
               !.completion[p] = FALSE]

\* `?` on a provider error: map_err(into_internal_error)
FailProvider(st, p) ==
    Return([st EXCEPT !.task[p].provider_failed = TRUE], p, "InternalError")

stop_reason_from_finish(finish) ==
    CASE finish \in {"Stop", "ToolCalls"} -> "EndTurn"
      [] finish = "Length" -> "MaxTokens"
      [] OTHER -> "Refusal"

\* (mutant) the text streamed so far is kept when the turn was cancelled
FinalizeKeepsPartial(st, p, stop_reason, assistant_message) ==
    LET s == st.task[p].session
        st1 == IF assistant_message # <<>>
               THEN PushMessage(st, s, AssistantMessage(p))
               ELSE st
    IN Return(st1, p, stop_reason)

\* the end of prompt: the assistant message is kept unless cancelled or empty
Finalize(st, p, stop_reason, assistant_message) ==
    LET s == st.task[p].session
        st1 == IF stop_reason # "Cancelled" /\ assistant_message # <<>>
               THEN PushMessage(st, s, AssistantMessage(p))
               ELSE st
    IN Return(st1, p, stop_reason)

(***************************************************************************)
(* Tool runtime of a turn.                                                 *)
(***************************************************************************)
has_registered_tools == config.read_file
tools_allowed ==
    has_registered_tools /\ config.read_file /\ config.supports_tools
allow_streaming == config.supports_streaming /\ ~tools_allowed

\* ToolRegistry::lookup
Lookup(name) == config.read_file /\ name = "read_file"
\* serde_json::from_str(&call.function.arguments) is Ok
ArgsParse(arguments) == arguments # "notjson"

\* the cancel flag is set by a cancel that came while p was in its loop
CancelPending(st, p) ==
    st.task[p].cancel_in_loop /\ st.cancel_flag[st.task[p].session]

\* the loop issues provider.generate; further: in an iteration after the
\* first.  A further request issued with such a cancel pending is recorded.
IssueGenerate(st, p, further) ==
    [st EXCEPT !.task[p].pc = "gen",
               !.task[p].generate_after_cancel =
                    @ \/ (further /\ CancelPending(st, p)),
               !.task[p].tool_calls = <<>>,
               !.task[p].idx = 0,
               !.task[p].call = <<>>,
               !.task[p].results = <<>>,
               !.task[p].report = "none",
               !.completion[p] = FALSE]

\* the choice between the streaming branch and the loop
Dispatch(st, p) ==
    IF allow_streaming
    THEN [st EXCEPT !.task[p].pc = "open", !.completion[p] = FALSE]
    ELSE IssueGenerate(st, p, FALSE)

\* prompt from push_message(user) to its next await
AfterResolve(st, p) ==
    LET s == st.task[p].session
        st1 == PushMessage(st, s, UserMessage(p))
    IN IF has_registered_tools /\ ~tools_allowed /\ ~st1.tool_notice_sent[s]
       THEN SendUpdate([st1 EXCEPT !.task[p].notice_emitted = TRUE], p,
                       Entry("AgentThoughtChunk"), "notice")
       ELSE Dispatch(st1, p)

(***************************************************************************)
(* Requests of the client.                                                 *)
(***************************************************************************)
\* new_session / register_session
NewSession ==
    /\ next_session_id < MaxSessions
    /\ next_session_id' = next_session_id + 1
    /\ messages' = [messages EXCEPT ![next_session_id] = <<>>]
    /\ tool_notice_sent' = [tool_notice_sent EXCEPT ![next_session_id] = FALSE]
    /\ cancel_flag' = [cancel_flag EXCEPT ![next_session_id] = FALSE]
    /\ UNCHANGED <<config, task, channelVars, clientVars, providerVars, coreVars>>

\* the positions of a task inside the stream loop and inside the tools loop
StreamLoop == {"next", "token", "cmp_content", "cmp_reason"}
ToolsLoop ==
    {"gen", "tc_pending", "tc_perm", "tc_prog", "tc_read", "tc_final",
     "gen_content", "gen_reason"}

\* cancel: the flag of the session is set (it is noted which turns of the
\* session are in their loop at that time)
Cancel ==
    \E s \in Registered :
        /\ cancel_flag' = [cancel_flag EXCEPT ![s] = TRUE]
        /\ task' = [p \in Prompts |->
                        IF task[p].session = s
                           /\ task[p].pc \in StreamLoop \cup ToolsLoop
                        THEN [task[p] EXCEPT !.cancel_in_loop = TRUE]
                        ELSE task[p]]
        /\ UNCHANGED <<config, next_session_id, messages, tool_notice_sent,
                       channelVars, clientVars, providerVars, coreVars>>

\* prompt up to its first await; link: the prompt holds a resource link, which
\* resolve_prompt reads through the client
PromptStart(p) ==
    /\ task[p].pc = "idle"
    /\ \A q \in Prompts : q < p => task[q].pc # "idle"
    /\ \E s \in SessionIds, link \in BOOLEAN :
        LET st1 == [Cur EXCEPT !.cancel_flag[s] = FALSE,
                               !.task[p].session = s]
        IN IF s \notin Registered
           THEN /\ ~link
                /\ Apply(Return(Cur, p, "InvalidParams"))
           ELSE IF link
           THEN Apply(ClientRequest(st1, p, Entry("read_text_file"), "resolve"))
           ELSE Apply(AfterResolve(st1, p))
    /\ TaskFrame /\ UNCHANGED providerVars

\* the client answers the read of the linked resource (content or error)
ResolveDone(p) ==
    /\ task[p].pc = "resolve"
    /\ Apply(AfterResolve(Cur, p))
    /\ TaskFrame /\ UNCHANGED providerVars

\* the notice was forwarded: mark_tool_notice_sent, then the provider call
NoticeAck(p) ==
    /\ Acked(p, "notice")
    /\ Apply(Dispatch([Cur EXCEPT !.tool_notice_sent[task[p].session] = TRUE], p))
    /\ TaskFrame /\ UNCHANGED providerVars

(***************************************************************************)
(* The notification forwarder task of run_zed_agent.                       *)
(***************************************************************************)
\* (mutant) the forwarder takes the newest envelope of the channel
NewestEnvelope(queue) == queue[Len(queue)]

\* the envelope rx.recv() yields
NextEnvelope(queue) == Head(queue)
RestOfQueue(queue) ==
    LET taken == CHOOSE i \in 1..Len(queue) : queue[i] = NextEnvelope(queue)
    IN [i \in 1..(Len(queue) - 1) |-> IF i < taken THEN queue[i] ELSE queue[i + 1]]

\* rx.recv() yields an envelope and conn.session_notification is called
ForwarderRecv ==
    /\ forwarding = <<>>
    /\ rx # <<>>
    /\ LET envelope == NextEnvelope(rx)
           update == envelope.notification
       IN /\ forwarding' = <<envelope>>
          /\ rx' = RestOfQueue(rx)
          /\ lifecycle' =
                IF update.id = 0 THEN lifecycle
                ELSE [lifecycle EXCEPT ![envelope.completion] = Append(@, update)]
          /\ closed' =
                IF update.kind = "ToolCallUpdate"
                   /\ update.status \in {"Completed", "Failed"}
                THEN closed \cup {update.id} ELSE closed
    /\ UNCHANGED <<config, sessionVars, task, completion, issued, providerVars,
                   coreVars>>

\* (mutant) the forwarder drops the oneshot of an envelope without firing it
CompletionKept(fired, p) == fired

\* envelope.completion.send(())
CompletionSend(fired, p) == [fired EXCEPT ![p] = TRUE]

\* the client call returns, Ok or Err (an Err is logged); completion.send(())
ForwarderDone ==
    /\ forwarding # <<>>
    /\ \E result \in {"Ok", "Err"} :
        /\ forwarding' = <<>>
        /\ completion' = CompletionSend(completion, forwarding[1].completion)
        /\ issued' = SelectSeq(issued, LAMBDA q : q # forwarding[1].completion)
    /\ UNCHANGED <<config, sessionVars, task, rx, clientVars, providerVars,
                   coreVars>>


(***************************************************************************)
(* execute_tool_calls: the lifecycle of one tool call.                     *)
(***************************************************************************)
\* (mutant) a failure report does not get the status Failed
ReportStatusUnfinished(report) ==
    IF report = "success" THEN "Completed" ELSE "InProgress"

\* ToolExecutionReport.status of a report
ReportStatus(report) == IF report = "success" THEN "Completed" ELSE "Failed"

\* (mutant) an option id that is not reject-once counts as approval
PermissionOverrideLax(outcome) ==
    CASE outcome = "Cancelled" -> "permission_cancelled"
      [] outcome = "reject-once" -> "permission_denied"
      [] OTHER -> "none"

\* request_tool_permission: the report that overrides execution, "none" for
\* Ok(None)
PermissionOverride(outcome) ==
    CASE outcome = "Cancelled" -> "permission_cancelled"
      [] outcome = "allow-once" -> "none"
      [] outcome = "reject-once" -> "permission_denied"
      [] outcome = "TransportError" -> "none"
      [] OTHER -> "permission_denied"

\* the guard of the InProgress update
SendsInProgress(name, permission_override) ==
    Lookup(name) /\ permission_override = "none"

\* the index of the call the loop handles after the call at k
NextIndex(k) == k + 1

\* the head of the for loop up to the await of the ToolCall(Pending) update.
\* The loop reads function.name and function.arguments of a call first here,
\* and here the model draws them (shape).
BeginCall(st, p, k, shape) ==
    LET call == [id |-> st.task[p].tool_calls[k], name |-> shape.name,
                 arguments |-> shape.arguments] IN
    SendUpdate([st EXCEPT !.task[p].idx = k, !.task[p].call = <<call>>,
                          !.task[p].report = "none", !.lifecycle[p] = <<>>], p,
        [Entry("ToolCall") EXCEPT
            !.id = call.id,
            !.status = "Pending",
            !.tool_kind = IF Lookup(call.name) THEN "Fetch" ELSE "Other",
            !.raw_input = IF ArgsParse(call.arguments) THEN "Some" ELSE "None"],
        "tc_pending")

\* the final ToolCallUpdate of a call, up to its await
SendTerminal(st, p, report) ==
    LET call == st.task[p].call[1] IN
    SendUpdate([st EXCEPT !.task[p].report = report], p,
        [Entry("ToolCallUpdate") EXCEPT
            !.id = call.id, !.status = ReportStatus(report)],
        "tc_final")

\* `let report = ...`: the override, or the outcome of the match; execute_tool
\* awaits read_text_file when parse_tool_path gives a path
Execute(st, p, permission_override) ==
    LET call == st.task[p].call[1] IN
    IF permission_override # "none"
    THEN SendTerminal(st, p, permission_override)
    ELSE IF ~ArgsParse(call.arguments)
    THEN SendTerminal(st, p, "invalid_json")
    ELSE IF ~Lookup(call.name)
    THEN SendTerminal(st, p, "unsupported_tool")
    ELSE IF call.arguments = "nopath"
    THEN SendTerminal(st, p, "missing_path")
    ELSE ClientRequest(st, p,
            [Entry("read_text_file") EXCEPT !.id = call.id], "tc_read")

\* from the permission decision to the next await
AfterPermission(st, p, permission_override) ==
    LET call == st.task[p].call[1] IN
    IF SendsInProgress(call.name, permission_override)
    THEN SendUpdate(st, p,
            [Entry("ToolCallUpdate") EXCEPT
                !.id = call.id, !.status = "InProgress"],
            "tc_prog")
    ELSE Execute(st, p, permission_override)

\* the Pending notification was forwarded: ask for permission when the tool is
\* known and its arguments parsed
PendingAck(p) ==
    /\ Acked(p, "tc_pending")
    /\ LET call == task[p].call[1] IN
       IF Lookup(call.name) /\ ArgsParse(call.arguments)
       THEN Apply(ClientRequest(Cur, p,
                [Entry("request_permission") EXCEPT !.id = call.id],
                "tc_perm"))
       ELSE Apply(AfterPermission(Cur, p, "none"))
    /\ TaskFrame /\ UNCHANGED providerVars

\* the client answers the permission request
PermissionReturn(p) ==
    /\ task[p].pc = "tc_perm"
    /\ \E outcome \in PermissionOutcomes :
        LET call == task[p].call[1]
            st1 == [Cur EXCEPT !.lifecycle[p] = Append(@,
                        [Entry("permission_outcome") EXCEPT
                            !.id = call.id, !.outcome = outcome])]
        IN Apply(AfterPermission(st1, p, PermissionOverride(outcome)))
    /\ TaskFrame /\ UNCHANGED providerVars

\* the InProgress notification was forwarded
InProgressAck(p) ==
    /\ Acked(p, "tc_prog")
    /\ Apply(Execute(Cur, p, "none"))
    /\ TaskFrame /\ UNCHANGED providerVars

\* the client answers read_text_file with the content or an error
ReadReturn(p) ==
    /\ task[p].pc = "tc_read"
    /\ \E ok \in BOOLEAN :
        Apply(SendTerminal(Cur, p, IF ok THEN "success" ELSE "read_failed"))
    /\ TaskFrame /\ UNCHANGED providerVars

\* (mutant) the newest result is put in front of the others
CollectResultInFront(results, tool_call_id) == <<tool_call_id>> \o results

\* results.push: of a ToolCallResult the model keeps the tool_call_id
CollectResult(results, tool_call_id) == Append(results, tool_call_id)

\* the tool responses prompt pushes for the results of execute_tool_calls
RECURSIVE PushResults(_, _, _)
PushResults(st, p, results) ==
    IF results = <<>> THEN st
    ELSE PushResults(PushMessage(st, st.task[p].session,
                                 ToolResponse(p, Head(results))),
                     p, Tail(results))

\* the final update was forwarded: results.push, then the next call, or the
\* return to prompt, which pushes the tool responses and loops
TerminalAck(p) ==
    /\ Acked(p, "tc_final")
    /\ LET t == task[p]
           results == CollectResult(t.results, ResultCallId(t.call[1].id))
           st1 == [Cur EXCEPT !.task[p].results = results]
       IN IF NextIndex(t.idx) \in 1..Len(t.tool_calls)
          THEN \E shape \in CallShapes :
                    Apply(BeginCall(st1, p, NextIndex(t.idx), shape))
          ELSE Apply(IssueGenerate(
                    PushResults([st1 EXCEPT !.lifecycle[p] = <<>>], p, results),
                    p, TRUE))
    /\ TaskFrame /\ UNCHANGED providerVars


(***************************************************************************)
(* The non-streaming / tools loop of prompt.                               *)
(***************************************************************************)
\* the ids of the n tool calls of a response: a provider gives every call an
\* id of its own
ToolCallIds(n) == [k \in 1..n |-> callsIssued + k]

\* provider.generate fails (Provider or Network error)
GenerateFails(p) ==
    /\ task[p].pc = "gen"
    /\ Apply(FailProvider(Cur, p))
    /\ TaskFrame /\ UNCHANGED providerVars

\* the response carries tool calls and tools are allowed: the assistant
\* message with the calls is pushed and execute_tool_calls starts
GenerateToolCalls(p) ==
    /\ task[p].pc = "gen"
    /\ tools_allowed
    /\ toolRounds < MaxToolRounds
    /\ \E n \in 1..MaxCalls, shape \in CallShapes :
        LET calls == ToolCallIds(n)
            st1 == PushMessage(Cur, task[p].session, AssistantWithTools(p, calls))
            st2 == [st1 EXCEPT !.task[p].tool_calls = calls,
                               !.task[p].results = <<>>]
        IN /\ Apply(BeginCall(st2, p, 1, shape))
           /\ callsIssued' = callsIssued + n
    /\ toolRounds' = toolRounds + 1
    /\ streamEvents' = streamEvents
    /\ TaskFrame

\* response.reasoning.filter(|reasoning| !reasoning.is_empty())
NonEmpty(reasoning) ==
    IF IsSome(reasoning) /\ Unwrap(reasoning) # <<>> THEN reasoning ELSE None

\* what a task keeps of a response over the await of its content chunk; the
\* reasoning is kept as filtered and the finish reason as the stop reason it
\* maps to, which is all the code after the await makes of them
Kept(content, reasoning, finish_reason) ==
    <<[content |-> content, reasoning |-> NonEmpty(reasoning),
       stop_reason |-> stop_reason_from_finish(finish_reason)]>>

\* the reasoning of a response is sent when it is not empty; then the turn ends
SendReasoning(st, p, reasoning, stop_reason, assistant_message, pc) ==
    IF IsSome(NonEmpty(reasoning))
    THEN SendUpdate(
            [st EXCEPT !.task[p].stop_reason = stop_reason,
                       !.task[p].assistant_message = assistant_message,
                       !.task[p].chunk_after_cancel =
                            @ \/ (pc = "cmp_reason" /\ CancelPending(st, p))],
            p,
            Entry("AgentThoughtChunk"),
            pc)
    ELSE Finalize(st, p, stop_reason, assistant_message)

\* the response ends the loop: no tool calls (None or empty), or tools are
\* not allowed; content and reasoning go to the client
GenerateFinal(p) ==
    /\ task[p].pc = "gen"
    /\ \E content \in {None} \cup {Some(c) : c \in ContentTexts},
          reasoning \in {None} \cup {Some(r) : r \in ReasoningTexts},
          finish_reason \in FinishReasons :
        IF IsSome(content) /\ Unwrap(content) # <<>>
        THEN Apply(SendUpdate(
                [Cur EXCEPT !.task[p].response =
                    Kept(content, reasoning, finish_reason)],
                p,
                Entry("AgentMessageChunk"),
                "gen_content"))
        ELSE Apply(SendReasoning(Cur, p, reasoning,
                                 stop_reason_from_finish(finish_reason),
                                 IF IsSome(content) THEN Unwrap(content)
                                 ELSE task[p].assistant_message,
                                 "gen_reason"))
    /\ TaskFrame /\ UNCHANGED providerVars

\* the content chunk was forwarded: assistant_message = content
GenContentAck(p) ==
    /\ Acked(p, "gen_content")
    /\ LET r == task[p].response[1] IN
       Apply(SendReasoning(Cur, p, r.reasoning, r.stop_reason,
                           Unwrap(r.content), "gen_reason"))
    /\ TaskFrame /\ UNCHANGED providerVars

\* the reasoning chunk was forwarded: the turn ends
GenReasonAck(p) ==
    /\ Acked(p, "gen_reason")
    /\ Apply(Finalize(Cur, p, task[p].stop_reason, task[p].assistant_message))
    /\ TaskFrame /\ UNCHANGED providerVars

(***************************************************************************)
(* The streaming branch of prompt.                                         *)
(***************************************************************************)
\* provider.stream fails
StreamOpenFails(p) ==
    /\ task[p].pc = "open"
    /\ Apply(FailProvider(Cur, p))
    /\ TaskFrame /\ UNCHANGED providerVars

\* provider.stream gives the stream: the loop awaits stream.next()
StreamOpened(p) ==
    /\ task[p].pc = "open"
    /\ Apply([Cur EXCEPT !.task[p].pc = "next"])
    /\ TaskFrame /\ UNCHANGED providerVars

\* stream.next() yields None: the loop ends with the initial stop_reason
StreamEnds(p) ==
    /\ task[p].pc = "next"
    /\ Apply(Finalize(Cur, p, task[p].stop_reason, task[p].assistant_message))
    /\ TaskFrame /\ UNCHANGED providerVars

\* stream.next() yields an Err event
StreamFails(p) ==
    /\ task[p].pc = "next"
    /\ Apply(FailProvider(Cur, p))
    /\ TaskFrame /\ UNCHANGED providerVars

\* the check of the cancel flag at the head of the loop body
SeesCancel(st, p) == st.cancel_flag[st.task[p].session]

Cancelled(st, p) ==
    Finalize(st, p, "Cancelled", st.task[p].assistant_message)

\* a Token or Reasoning chunk of the stream loop, up to its await
StreamChunk(st, p, kind, pc) ==
    SendUpdate([st EXCEPT !.task[p].chunk_after_cancel =
                    @ \/ CancelPending(st, p),
                          !.task[p].text_streamed =
                    @ \/ kind = "AgentMessageChunk"],
               p, Entry(kind), pc)

\* stream.next() yields Token{delta}
StreamToken(p) ==
    /\ task[p].pc = "next"
    /\ streamEvents < MaxStreamEvents
    /\ \E delta \in ContentTexts :
        IF SeesCancel(Cur, p) THEN Apply(Cancelled(Cur, p))
        ELSE IF delta # <<>>
        THEN Apply(StreamChunk(
                [Cur EXCEPT !.task[p].assistant_message = @ \o delta],
                p, "AgentMessageChunk", "token"))
        ELSE Apply(Cur)
    /\ streamEvents' = streamEvents + 1
    /\ UNCHANGED <<toolRounds, callsIssued>>
    /\ TaskFrame

\* stream.next() yields Reasoning{delta}
StreamReasoning(p) ==
    /\ task[p].pc = "next"
    /\ streamEvents < MaxStreamEvents
    /\ \E delta \in ReasoningTexts :
        IF SeesCancel(Cur, p) THEN Apply(Cancelled(Cur, p))
        ELSE IF delta # <<>>
        THEN Apply(StreamChunk(Cur, p, "AgentThoughtChunk", "token"))
        ELSE Apply(Cur)
    /\ streamEvents' = streamEvents + 1
    /\ UNCHANGED <<toolRounds, callsIssued>>
    /\ TaskFrame

\* the chunk of a Token or Reasoning event was forwarded: next loop iteration
ChunkAck(p) ==
    /\ Acked(p, "token")
    /\ Apply([Cur EXCEPT !.task[p].pc = "next", !.completion[p] = FALSE])
    /\ TaskFrame /\ UNCHANGED providerVars

\* stream.next() yields Completed{response}
StreamCompleted(p) ==
    /\ task[p].pc = "next"
    /\ \E content \in {None} \cup {Some(c) : c \in ContentTexts},
          reasoning \in {None} \cup {Some(r) : r \in ReasoningTexts},
          finish_reason \in FinishReasons :
        IF SeesCancel(Cur, p) THEN Apply(Cancelled(Cur, p))
        ELSE IF task[p].assistant_message = <<>> /\ IsSome(content)
                /\ Unwrap(content) # <<>>
        THEN Apply(StreamChunk(
                [Cur EXCEPT !.task[p].response =
                    Kept(content, reasoning, finish_reason)],
                p, "AgentMessageChunk", "cmp_content"))
        ELSE Apply(SendReasoning(Cur, p, reasoning,
                                 stop_reason_from_finish(finish_reason),
                                 task[p].assistant_message, "cmp_reason"))
    /\ TaskFrame /\ UNCHANGED providerVars

\* the content chunk of Completed was forwarded: assistant_message gets it
CompletedContentAck(p) ==
    /\ Acked(p, "cmp_content")
    /\ LET r == task[p].response[1] IN
       Apply(SendReasoning(Cur, p, r.reasoning, r.stop_reason,
                           task[p].assistant_message \o Unwrap(r.content),
                           "cmp_reason"))
    /\ TaskFrame /\ UNCHANGED providerVars

\* the reasoning chunk of Completed was forwarded: break
CompletedReasonAck(p) ==
    /\ Acked(p, "cmp_reason")
    /\ Apply(Finalize(Cur, p, task[p].stop_reason, task[p].assistant_message))
    /\ TaskFrame /\ UNCHANGED providerVars

Next ==
    \/ NewSession
    \/ Cancel
    \/ ForwarderRecv
    \/ ForwarderDone
    \/ \E p \in Prompts :
        \/ PromptStart(p)
        \/ ResolveDone(p)
        \/ NoticeAck(p)
        \/ GenerateFails(p)
        \/ GenerateToolCalls(p)
        \/ GenerateFinal(p)
        \/ GenContentAck(p)
        \/ GenReasonAck(p)
        \/ PendingAck(p)
        \/ PermissionReturn(p)
        \/ InProgressAck(p)
        \/ ReadReturn(p)
        \/ TerminalAck(p)
        \/ StreamOpenFails(p)
        \/ StreamOpened(p)
        \/ StreamEnds(p)
        \/ StreamFails(p)
        \/ StreamToken(p)
        \/ StreamReasoning(p)
        \/ ChunkAck(p)
        \/ StreamCompleted(p)
        \/ CompletedContentAck(p)
        \/ CompletedReasonAck(p)

Spec == Init /\ [][Next]_vars


(***************************************************************************)
(* Properties of the bridge.                                               *)
(***************************************************************************)
Done(p) == task[p].pc = "done"

\* the positions at which a task awaits the completion of a send_update
SendWaits ==
    {"notice", "tc_pending", "tc_prog", "tc_final", "gen_content", "gen_reason",
     "token", "cmp_content", "cmp_reason"}

\* the places of the entries of a lifecycle that satisfy a test
Places(log, Test(_)) == {i \in 1..Len(log) : Test(log[i])}

IsPending(e) == e.kind = "ToolCall" /\ e.status = "Pending"
IsInProgress(e) == e.kind = "ToolCallUpdate" /\ e.status = "InProgress"
IsTerminal(e) ==
    e.kind = "ToolCallUpdate" /\ e.status \in {"Completed", "Failed"}
IsRead(e) == e.kind = "read_text_file"
IsPermissionRequest(e) == e.kind = "request_permission"
IsAllowed(e) ==
    e.kind = "permission_outcome" /\ e.outcome \in {"allow-once", "TransportError"}
IsRefused(e) ==
    e.kind = "permission_outcome"
    /\ e.outcome \in {"Cancelled", "reject-once", "other-option"}

\* C1: a cancel that comes while a turn is in the tools loop is seen before
\* the next loop iteration: with the flag of such a cancel set, the turn issues
\* no further generate request (and returns Cancelled).
C1_CancelEndsToolsLoop ==
    \A p \in Prompts : ~task[p].generate_after_cancel

\* C2: in a streaming turn, with the flag of a cancel that came during the
\* stream loop set, the turn issues no further AgentMessageChunk or
\* AgentThoughtChunk (and returns Cancelled).
C2_NoChunkAfterCancel ==
    \A p \in Prompts : ~task[p].chunk_after_cancel

\* C3: read_text_file is sent for a tool call only after its permission
\* request was answered allow-once or failed at transport; after an answer
\* Cancelled, reject-once or an unknown option no read is sent for the call,
\* no InProgress, and its final update is Failed.
C3_ExecutedOnlyIfAllowed ==
    \A p \in Prompts :
        LET log == lifecycle[p] IN
        /\ \A i \in Places(log, IsRead) :
                \E j \in Places(log, IsAllowed) : j < i
        /\ Places(log, IsRefused) # {} =>
                /\ Places(log, IsRead) = {}
                /\ Places(log, IsInProgress) = {}
                /\ \A i \in Places(log, IsTerminal) : log[i].status = "Failed"

\* C3 witness: a call was executed after its permission request failed at
\* transport, and its final update was handed to the client
C3_Witness ==
    \E p \in Prompts :
        LET log == lifecycle[p] IN
        /\ Places(log, IsRead) # {}
        /\ Places(log, IsTerminal) # {}
        /\ \E j \in Places(log, IsAllowed) : log[j].outcome = "TransportError"

\* C4: in every session history each Tool message has the id of a tool call
\* of an assistant message earlier in the same history.
C4_ToolMessageHasPriorCall ==
    \A s \in SessionIds :
        \A i \in 1..Len(messages[s]) :
            messages[s][i].role = "Tool" =>
                \E j \in 1..(i - 1) :
                    /\ messages[s][j].role = "Assistant"
                    /\ \E k \in 1..Len(messages[s][j].tool_calls) :
                            messages[s][j].tool_calls[k] = messages[s][i].tool_call_id

\* C4 witness: a history holds the tool responses of a response with two calls
C4_Witness ==
    \E s \in SessionIds :
        Cardinality({i \in 1..Len(messages[s]) : messages[s][i].role = "Tool"}) >= 2

\* C5: a turn whose provider call failed (generate, opening the stream, or a
\* stream event) ends with stop_reason Refusal.
C5_ProviderErrorIsRefusal ==
    \A p \in Prompts :
        (Done(p) /\ task[p].provider_failed) => task[p].result = "Refusal"

\* C6: what the client gets for a tool call is, in order: one ToolCall(Pending)
\* before any permission request or read, at most one InProgress update, and
\* one final update (Completed or Failed), which is there when the result of
\* the call is collected and after which nothing follows for the call.
C6_CallLifecycle ==
    \A p \in Prompts :
        LET log == lifecycle[p] IN
        /\ \A i \in 1..Len(log) :
                /\ log[i].id = task[p].call[1].id
                /\ IsPending(log[i]) <=> i = 1
                /\ IsTerminal(log[i]) => i = Len(log)
                /\ log[i].id \in closed => IsTerminal(log[Len(log)])
        /\ Cardinality(Places(log, IsInProgress)) <= 1
        /\ Acked(p, "tc_final") =>
                (log # <<>> /\ IsTerminal(log[Len(log)]))
        /\ \A k \in 1..Len(task[p].results) : task[p].results[k] \in closed

\* C6 witness: the whole lifecycle of an executed call is with the client
C6_Witness ==
    \E p \in Prompts :
        LET log == lifecycle[p] IN
        /\ Acked(p, "tc_final")
        /\ Places(log, IsInProgress) # {}
        /\ Places(log, IsRead) # {}
        /\ log[Len(log)].status = "Completed"

\* C7: InProgress is emitted for a tool call if and only if the call proceeds
\* to execution: the tool is known, its arguments parsed, and the permission
\* was not denied or cancelled.
C7_InProgressIffExecuted ==
    \A p \in Prompts :
        LET log == lifecycle[p] IN
        Places(log, IsTerminal) # {} =>
            (Places(log, IsInProgress) # {}
                <=> /\ log[1].tool_kind = "Fetch"
                    /\ log[1].raw_input = "Some"
                    /\ Places(log, IsAllowed) # {})


\* the place of a call id among the tool calls of a response, 0 when absent
PlaceOf(calls, id) ==
    IF \E k \in 1..Len(calls) : calls[k] = id
    THEN CHOOSE k \in 1..Len(calls) : calls[k] = id
    ELSE 0

\* C8: the tool calls of a response are handled one at a time in the order of
\* the response: the client gets a permission request or a read for a call
\* only after it got the final update of every earlier call of the response,
\* the results are collected in that order, and the tool responses of the
\* response stand in the history in that order.
C8_CallsInProviderOrder ==
    /\ \A p \in Prompts :
        LET t == task[p] IN
        /\ \A i \in 1..Len(lifecycle[p]) :
                \A k \in 1..(PlaceOf(t.tool_calls, lifecycle[p][i].id) - 1) :
                    t.tool_calls[k] \in closed
        /\ Len(t.results) <= Len(t.tool_calls)
        /\ \A k \in 1..Len(t.results) : t.results[k] = t.tool_calls[k]
    /\ \A s \in SessionIds :
        \A a \in 1..Len(messages[s]) :
            LET calls == messages[s][a].tool_calls IN
            \A i, j \in 1..Len(messages[s]) :
                (/\ i < j
                 /\ messages[s][i].role = "Tool"
                 /\ messages[s][j].role = "Tool"
                 /\ PlaceOf(calls, messages[s][i].tool_call_id) > 0
                 /\ PlaceOf(calls, messages[s][j].tool_call_id) > 0)
                => PlaceOf(calls, messages[s][i].tool_call_id)
                        < PlaceOf(calls, messages[s][j].tool_call_id)

\* C8 witness: the second call of a response has been executed and both tool
\* responses of the response stand in the history
C8_Witness ==
    \E s \in SessionIds :
        \E a, i, j \in 1..Len(messages[s]) :
            /\ Len(messages[s][a].tool_calls) = 2
            /\ a < i /\ i < j
            /\ messages[s][i].role = "Tool"
            /\ messages[s][i].tool_call_id = messages[s][a].tool_calls[1]
            /\ messages[s][j].role = "Tool"
            /\ messages[s][j].tool_call_id = messages[s][a].tool_calls[2]

\* the prompts that have an envelope in the channel or with the forwarder
Outstanding ==
    {rx[i].completion : i \in 1..Len(rx)}
        \cup {forwarding[i].completion : i \in 1..Len(forwarding)}

\* C9: the client is handed the notifications in the order of their
\* send_update calls, and a send_update returns only after the forwarder has
\* finished the client call for its notification.
C9_UpdatesInIssueOrder ==
    /\ forwarding # <<>> => forwarding[1].completion = Head(issued)
    /\ \A p \in Prompts :
        (task[p].pc \notin SendWaits \/ completion[p]) =>
            (p \notin Outstanding /\ \A i \in 1..Len(issued) : issued[i] # p)

\* C9 witness: the forwarder awaits the client call for one notification while
\* a later one waits in the channel
C9_Witness ==
    /\ forwarding # <<>>
    /\ rx # <<>>
    /\ issued = <<forwarding[1].completion, rx[1].completion>>

\* C10: the messages that one prompt request appends to the history of a
\* session are never interleaved with the messages of another prompt request.
C10_HistoryNotInterleaved ==
    \A s \in SessionIds :
        \A i, j, k \in 1..Len(messages[s]) :
            (i < j /\ j < k /\ messages[s][i].by = messages[s][k].by)
                => messages[s][j].by = messages[s][i].by

\* the turns of a session that got past the session lookup of prompt
TurnsOf(s) ==
    {p \in Prompts : /\ task[p].pc # "idle"
                     /\ task[p].session = s
                     /\ task[p].result # "InvalidParams"}

\* C11: a turn that returns stop_reason Cancelled has appended no assistant
\* message to the history of its session, also when assistant text had been
\* streamed to the client before.
C11_CancelledKeepsNoAssistant ==
    \A p \in Prompts :
        (Done(p) /\ task[p].result = "Cancelled") =>
            \A i \in 1..Len(messages[task[p].session]) :
                LET m == messages[task[p].session][i] IN
                ~(m.role = "Assistant" /\ m.by = p)

\* C11 witness: a turn returned Cancelled after it had streamed assistant text
C11_Witness ==
    \E p \in Prompts :
        Done(p) /\ task[p].result = "Cancelled" /\ task[p].text_streamed

\* C12: the tools-disabled notice is emitted at most once per session, over
\* any number of turns of the session and any interleaving of them.
C12_NoticeAtMostOnce ==
    \A s \in SessionIds :
        Cardinality({p \in TurnsOf(s) : task[p].notice_emitted}) <= 1

\* C13: the first turn of a session in which the tool runtime is Disabled,
\* by configuration or by the provider, emits the tools-disabled notice: once
\* a turn is past that place of prompt, a turn of its session has emitted it.
C13_FirstDisabledTurnEmitsNotice ==
    \A s \in SessionIds :
        (/\ ~tools_allowed
         /\ \E p \in TurnsOf(s) : task[p].pc # "resolve")
        => \E p \in TurnsOf(s) : task[p].notice_emitted


(***************************************************************************)
(* vtcode-core/src/llm/providers/openrouter.rs: ReasoningBuffer.           *)
(* A String is a sequence of one-character strings.                        *)
(***************************************************************************)
\* pushes a caller makes in one run
MaxFeeds == 3

\* char::is_whitespace, over the characters the model uses
IsWhitespace(ch) == ch \in {" ", "\n"}

\* chunk.trim().is_empty()
IsBlank(chunk) == \A i \in 1..Len(chunk) : IsWhitespace(chunk[i])

\* normalize_chunk: the parts of split_whitespace joined by single spaces;
\* gap: whitespace was passed since the last character taken
RECURSIVE NormalizeFrom(_, _, _, _)
NormalizeFrom(chunk, i, normalized, gap) ==
    IF i > Len(chunk) THEN normalized
    ELSE IF IsWhitespace(chunk[i])
    THEN NormalizeFrom(chunk, i + 1, normalized, TRUE)
    ELSE NormalizeFrom(chunk, i + 1,
            normalized
                \o (IF gap /\ normalized # <<>> THEN <<" ">> ELSE <<>>)
                \o <<chunk[i]>>,
            FALSE)

normalize_chunk(chunk) == NormalizeFrom(chunk, 1, <<>>, FALSE)

\* is_leading_punctuation: the first character that is not whitespace
is_leading_punctuation(chunk) ==
    \E i \in 1..Len(chunk) :
        /\ \A j \in 1..(i - 1) : IsWhitespace(chunk[j])
        /\ chunk[i] \in {",", ".", "!", "?", ":", ";", ")", "]", "}"}

\* ends_with_connector: the last character that is not whitespace
ends_with_connector(text) ==
    \E i \in 1..Len(text) :
        /\ \A j \in (i + 1)..Len(text) : IsWhitespace(text[j])
        /\ text[i] \in {"(", "[", "{", "/", "-"}

\* (mutant) the chunk as received is compared with the last chunk kept
SameAsLastRaw(buffer, chunk, normalized) == buffer.last_chunk = Some(chunk)

\* self.last_chunk.as_deref() == Some(&normalized)
SameAsLast(buffer, chunk, normalized) == buffer.last_chunk = Some(normalized)

\* ReasoningBuffer::push: the buffer after the call and the Option it returns
ReasoningPush(buffer, chunk) ==
    LET normalized == normalize_chunk(chunk)
        last_has_spacing ==
            buffer.text # <<>> /\ IsWhitespace(buffer.text[Len(buffer.text)])
        chunk_starts_with_space == chunk # <<>> /\ IsWhitespace(chunk[1])
        delta ==
            (IF /\ buffer.text # <<>>
                /\ ~last_has_spacing
                /\ ~chunk_starts_with_space
                /\ ~is_leading_punctuation(chunk)
                /\ ~ends_with_connector(buffer.text)
             THEN <<" ">> ELSE <<>>) \o normalized
    IN IF IsBlank(chunk) \/ normalized = <<>>
          \/ SameAsLast(buffer, chunk, normalized)
       THEN [buffer |-> buffer, delta |-> None]
       ELSE [buffer |-> [text |-> buffer.text \o delta,
                         last_chunk |-> Some(normalized)],
             delta |-> Some(delta)]

\* the chunk texts a caller pushes
PushChunks ==
    {<<>>, <<" ">>, <<"a">>, <<" ", "a">>, <<"a", " ", " ", "b">>, <<",">>,
     <<"(">>}

PushInit ==
    /\ BridgeFresh
    /\ CoreFresh

\* one call of push on the buffer
Feed ==
    /\ Len(fed) < MaxFeeds
    /\ \E chunk \in PushChunks :
        LET pushed == ReasoningPush(reasoning_buffer, chunk) IN
        /\ reasoning_buffer' = pushed.buffer
        /\ fed' = Append(fed, chunk)
        /\ push_deltas' = Append(push_deltas, pushed.delta)
    /\ UNCHANGED <<vars, decoderVars, httpVars, policyVars, frontVars>>

PushNext == Feed

PushSpec == PushInit /\ [][PushNext]_<<reasoning_buffer, pushVars>>

\* the pushes among the first n that returned a delta
Accepted(n) == {i \in 1..n : IsSome(push_deltas[i])}

\* C18: the same chunk text fed twice in sequence (to a new buffer) emits
\* exactly one delta, and the buffer then holds the normalized chunk exactly
\* once.
C18_SameChunkTwiceOneDelta ==
    (Len(fed) = 2 /\ fed[1] = fed[2]) =>
        /\ Cardinality(Accepted(2)) = 1
        /\ reasoning_buffer.text = normalize_chunk(fed[1])

\* C18 as amended: the same holds of a chunk that is not blank (empty or
\* whitespace only); and a chunk fed right after the same chunk never emits
\* a delta, whatever the buffer held before.
C18_NonBlankTwiceOneDelta ==
    /\ (Len(fed) = 2 /\ fed[1] = fed[2] /\ ~IsBlank(fed[1])) =>
        /\ Accepted(2) = {1}
        /\ reasoning_buffer.text = normalize_chunk(fed[1])
    /\ \A i \in 1..(Len(fed) - 1) :
        fed[i] = fed[i + 1] => push_deltas[i + 1] = None

\* C18 witness: a chunk with inner whitespace was fed twice to a new buffer
C18_Witness ==
    /\ fed = << <<"a", " ", " ", "b">>, <<"a", " ", " ", "b">> >>
    /\ push_deltas = << Some(<<"a", " ", "b">>), None >>


(***************************************************************************)
(* vtcode-core/src/llm/providers/openrouter.rs: the stream decoder.        *)
(*                                                                         *)
(* A JSON object is a record of the members the decoder reads, each an     *)
(* Option; a content value is tagged with its JSON type.                   *)
(***************************************************************************)
\* data payloads the server sends in one stream
MaxPayloads == 2
\* the largest tool_call index the server uses
MaxIndex == 1
\* entries of the tool_calls array of one chat-completion chunk
MaxDeltas == 2

\* an object without any of the members, which reads like Value::Null
JsonNull ==
    [type |-> None, text |-> None, index |-> None, id |-> None,
     function |-> None, tool_call |-> None]

JString(text) == [json |-> "string", value |-> text]
JObject(map) == [json |-> "object", value |-> map]
JArray(parts) == [json |-> "array", value |-> parts]

\* ToolCallBuilder::default(); from: the server indices whose fragments the
\* builder took (no field of the program)
DefaultBuilder == [id |-> None, name |-> None, arguments |-> <<>>, from |-> {}]

\* the body of the loop of update_tool_calls for one delta
UpdateBuilder(builder, delta) ==
    LET function == delta.function
        b1 == IF IsSome(delta.id) THEN [builder EXCEPT !.id = delta.id]
              ELSE builder
        b2 == IF IsSome(function) /\ IsSome(Unwrap(function).name)
              THEN [b1 EXCEPT !.name = Unwrap(function).name] ELSE b1
        b3 == IF IsSome(function) /\ IsSome(Unwrap(function).arguments)
              THEN [b2 EXCEPT !.arguments = @ \o Unwrap(Unwrap(function).arguments)]
              ELSE b2
    IN IF (IsSome(delta.id) \/ IsSome(function)) /\ IsSome(delta.index)
       THEN [b3 EXCEPT !.from = @ \cup {Unwrap(delta.index)}]
       ELSE b3

\* update_tool_calls from the entry at place k of deltas on: the builder of
\* an entry is the one at the place of the entry in the array
RECURSIVE UpdateToolCallsFrom(_, _, _)
UpdateToolCallsFrom(builders, deltas, k) ==
    IF k > Len(deltas) THEN builders
    ELSE LET grown == IF Len(builders) <= k - 1
                      THEN Append(builders, DefaultBuilder) ELSE builders
         IN UpdateToolCallsFrom(
                [grown EXCEPT ![k] = UpdateBuilder(@, deltas[k])], deltas, k + 1)

update_tool_calls(builders, deltas) == UpdateToolCallsFrom(builders, deltas, 1)

\* builders.resize_with(index + 1, ToolCallBuilder::default)
ResizeWith(builders, n) ==
    [k \in 1..n |-> IF k <= Len(builders) THEN builders[k] ELSE DefaultBuilder]

\* apply_tool_call_delta_from_content, for a container without a nested
\* "delta" member.  The delta it hands on keeps the index for `from` only:
\* update_tool_calls does not read it.
apply_tool_call_delta_from_content(builders, container) ==
    LET delta_source == IF IsSome(container.tool_call)
                        THEN Unwrap(container.tool_call) ELSE container
        index == IF IsSome(delta_source.index)
                 THEN Unwrap(delta_source.index) ELSE 0
        delta_map == [JsonNull EXCEPT !.id = delta_source.id,
                                      !.function = delta_source.function,
                                      !.index = Some(index)]
        resized == IF Len(builders) <= index
                   THEN ResizeWith(builders, index + 1) ELSE builders
        deltas == [k \in 1..(index + 1) |->
                        IF k = index + 1 THEN delta_map ELSE JsonNull]
    IN IF ~IsSome(delta_source.id) /\ ~IsSome(delta_source.function)
       THEN builders
       ELSE update_tool_calls(resized, deltas)

\* StreamDelta::push_content / push_reasoning: a fragment of the kind of the
\* last one extends it
PushFragment(fragments, kind, text) ==
    IF text = <<>> THEN fragments
    ELSE IF fragments # <<>> /\ fragments[Len(fragments)].kind = kind
    THEN [fragments EXCEPT ![Len(fragments)].delta = @ \o text]
    ELSE Append(fragments, [kind |-> kind, delta |-> text])

\* the accumulators a payload is decoded into (d), with the StreamDelta of
\* the payload
Accumulators ==
    [aggregated_content |-> aggregated_content,
     tool_call_builders |-> tool_call_builders,
     reasoning |-> reasoning_buffer,
     fragments |-> <<>>]

\* aggregated_content.push_str(text); deltas.push_content(text)
TakeContent(d, text) ==
    IF text = <<>> THEN d
    ELSE [d EXCEPT !.aggregated_content = @ \o text,
                   !.fragments = PushFragment(@, "Token", text)]

\* reasoning.push(text) and deltas.push_reasoning(&delta)
TakeReasoning(d, text) ==
    LET pushed == ReasoningPush(d.reasoning, text) IN
    IF IsSome(pushed.delta)
    THEN [d EXCEPT !.reasoning = pushed.buffer,
                   !.fragments = PushFragment(@, "Reasoning", Unwrap(pushed.delta))]
    ELSE d

\* process_content_object, for an object without output_text members and
\* without nested content
process_content_object(d, map) ==
    IF map.type \in {Some("reasoning"), Some("thinking"), Some("analysis")}
    THEN IF IsSome(map.text) THEN TakeReasoning(d, Unwrap(map.text)) ELSE d
    ELSE IF map.type \in {Some("tool_call_delta"), Some("tool_call")}
    THEN [d EXCEPT !.tool_call_builders =
                        apply_tool_call_delta_from_content(@, map)]
    ELSE IF IsSome(map.tool_call)
    THEN [d EXCEPT !.tool_call_builders =
                        apply_tool_call_delta_from_content(@, Unwrap(map.tool_call))]
    ELSE IF IsSome(map.text) THEN TakeContent(d, Unwrap(map.text))
    ELSE d

\* process_content_part, for a part that is a string or an object
process_content_part(d, part) ==
    IF part.json = "string" THEN TakeContent(d, part.value)
    ELSE IF part.json = "object" THEN process_content_object(d, part.value)
    ELSE d

RECURSIVE ProcessParts(_, _)
ProcessParts(d, parts) ==
    IF parts = <<>> THEN d
    ELSE ProcessParts(process_content_part(d, Head(parts)), Tail(parts))

process_content_value(d, value) ==
    IF value.json = "string" THEN TakeContent(d, value.value)
    ELSE IF value.json = "array" THEN ProcessParts(d, value.value)
    ELSE IF value.json = "object" THEN process_content_object(d, value.value)
    ELSE d

\* a payload: choices[0].delta.content, .reasoning and .tool_calls, type and
\* delta
NoPayload ==
    [content |-> None, reasoning |-> None, tool_calls |-> None, type |-> None,
     delta |-> None]

\* extract_reasoning_trace of a value that is a string: the text, unless it is
\* blank (providers/reasoning.rs)
extract_reasoning_trace(value) ==
    IF value.json = "string" /\ ~IsBlank(value.value) THEN Some(value.value)
    ELSE None

push_reasoning_value(given, value) ==
    The({(
            IF IsSome(extract_reasoning_trace(value))
            THEN TakeReasoning(d, Unwrap(extract_reasoning_trace(value)))
            ELSE IF value.json = "object" /\ IsSome(value.value.text)
            THEN TakeReasoning(d, Unwrap(value.value.text))
            ELSE d
        ) : d \in {given}})

\* parse_chat_completion_chunk (content, reasoning and tool_calls of the
\* delta)
parse_chat_completion_chunk(d, payload) ==
    The({(
            The({(
                    IF IsSome(payload.tool_calls)
                    THEN [d2 EXCEPT !.tool_call_builders =
                            update_tool_calls(@, Unwrap(payload.tool_calls))]
                    ELSE d2
                ) : d2 \in {IF IsSome(payload.reasoning)
                            THEN push_reasoning_value(d1, Unwrap(payload.reasoning))
                            ELSE d1}})
        ) : d1 \in {IF IsSome(payload.content)
                    THEN process_content_value(d, Unwrap(payload.content))
                    ELSE d}})

\* parse_response_chunk (delta, and the response.reasoning.delta and
\* response.tool_call.delta events)
parse_response_chunk(d, payload) ==
    The({(
            IF /\ payload.type = Some("response.reasoning.delta")
               /\ IsSome(payload.delta)
            THEN push_reasoning_value(d1, Unwrap(payload.delta))
            ELSE IF /\ payload.type = Some("response.tool_call.delta")
                    /\ IsSome(payload.delta)
                    /\ Unwrap(payload.delta).json = "object"
            THEN [d1 EXCEPT !.tool_call_builders =
                    apply_tool_call_delta_from_content(@, Unwrap(payload.delta).value)]
            ELSE d1
        ) : d1 \in {IF IsSome(payload.delta)
                    THEN process_content_value(d, Unwrap(payload.delta))
                    ELSE d}})

\* parse_stream_payload: both parsers see every payload, each with a
\* StreamDelta of its own; emitted_delta.extend joins the two
parse_stream_payload(d, payload) ==
    LET chat == parse_chat_completion_chunk(d, payload)
        response == parse_response_chunk([chat EXCEPT !.fragments = <<>>], payload)
    IN [response EXCEPT !.fragments = chat.fragments \o @]

\* ToolCallBuilder::finalize; the fallback id is format!("tool_call_{}", index)
FinalizeBuilder(builder, fallback_index) ==
    IF ~IsSome(builder.name) THEN None
    ELSE Some([id |-> IF IsSome(builder.id) THEN Unwrap(builder.id)
                      ELSE <<"tool_call_", fallback_index>>,
               name |-> Unwrap(builder.name),
               arguments |-> IF builder.arguments = <<>> THEN <<"{", "}">>
                             ELSE builder.arguments])

\* finalize_tool_calls: the calls of the builders from place k on
RECURSIVE FinalizeFrom(_, _)
FinalizeFrom(builders, k) ==
    IF k > Len(builders) THEN <<>>
    ELSE FinalizeBuilder(builders[k], k - 1) \o FinalizeFrom(builders, k + 1)

finalize_tool_calls(builders) ==
    IF FinalizeFrom(builders, 1) = <<>> THEN None
    ELSE Some(FinalizeFrom(builders, 1))

\* finalize_stream_response (ReasoningBuffer::finalize: the buffer text has
\* no whitespace at its ends, so trim gives the text)
finalize_stream_response ==
    [content |-> IF aggregated_content = <<>> THEN None
                 ELSE Some(aggregated_content),
     tool_calls |-> finalize_tool_calls(tool_call_builders),
     reasoning |-> IF IsBlank(reasoning_buffer.text) THEN None
                   ELSE Some(reasoning_buffer.text)]

\* the tool-call fragments of the server: index, name and arguments; the id
\* comes with the name
FragmentNames == {None, Some(<<>>), Some(<<"f">>)}
FragmentArguments == {None, Some(<<"x">>), Some(<<"y">>)}

ToolDelta(index, name, arguments) ==
    [JsonNull EXCEPT !.index = Some(index),
                     !.id = IF name = Some(<<"f">>) THEN Some("call") ELSE None,
                     !.function = Some([name |-> name, arguments |-> arguments])]

ToolDeltas ==
    {ToolDelta(index, name, arguments) :
        index \in 0..MaxIndex, name \in FragmentNames,
        arguments \in FragmentArguments}

\* the three forms of the delta of a response.tool_call.delta event
ResponseDeltaForms(fragment) ==
    {fragment,
     [JsonNull EXCEPT !.tool_call = Some(fragment)],
     [fragment EXCEPT !.type = Some("tool_call_delta")]}

ReasoningPart == [JsonNull EXCEPT !.type = Some("reasoning"), !.text = Some(<<"a">>)]
TextPart == [JsonNull EXCEPT !.type = Some("text"), !.text = Some(<<"i">>)]

ContentValues ==
    {JString(<<"h">>), JObject(TextPart),
     JArray(<<JString(<<"h">>), JObject(ReasoningPart)>>),
     JArray(<<JObject(ReasoningPart), JObject(TextPart)>>)}

\* the text of a reasoning delta: of delta.reasoning of a chat chunk, and of
\* a response.reasoning.delta event; no content carries either letter
ChatReasoningText == <<"r">>
ResponseReasoningText == <<"s">>

Payloads ==
    {[NoPayload EXCEPT !.content = Some(value)] : value \in ContentValues}
    \cup {[NoPayload EXCEPT !.reasoning = Some(JString(ChatReasoningText))]}
    \cup {[NoPayload EXCEPT !.type = Some("response.reasoning.delta"),
                            !.delta = Some(JString(ResponseReasoningText))]}
    \cup {[NoPayload EXCEPT !.tool_calls = Some(deltas)] :
            deltas \in UNION {[1..n -> ToolDeltas] : n \in 1..MaxDeltas}}
    \cup {[NoPayload EXCEPT !.type = Some("response.output_text.delta"),
                            !.delta = Some(JString(<<"h">>))]}
    \cup {[NoPayload EXCEPT !.type = Some("response.tool_call.delta"),
                            !.delta = Some(JObject(form))] :
            form \in UNION {ResponseDeltaForms(fragment) : fragment \in ToolDeltas}}

\* the argument fragments a payload carries, in their order, each with the
\* index the server gave it
ArgumentsOf(fragment) ==
    IF IsSome(Unwrap(fragment.function).arguments)
    THEN <<[index |-> Unwrap(fragment.index),
            arguments |-> Unwrap(Unwrap(fragment.function).arguments)]>>
    ELSE <<>>

RECURSIVE ArgumentsIn(_)
ArgumentsIn(deltas) ==
    IF deltas = <<>> THEN <<>>
    ELSE ArgumentsOf(Head(deltas)) \o ArgumentsIn(Tail(deltas))

Sent(payload) ==
    IF IsSome(payload.tool_calls) THEN ArgumentsIn(Unwrap(payload.tool_calls))
    ELSE IF payload.type = Some("response.tool_call.delta")
    THEN LET form == Unwrap(payload.delta).value
         IN ArgumentsOf(IF IsSome(form.tool_call) THEN Unwrap(form.tool_call)
                        ELSE form)
    ELSE <<>>

\* the events of the fragments of one payload (stream, the two for loops)
RECURSIVE EventsOf(_)
EventsOf(fragments) ==
    IF fragments = <<>> THEN <<>>
    ELSE <<[kind |-> Head(fragments).kind, delta |-> Head(fragments).delta]>>
         \o EventsOf(Tail(fragments))

CompletedEvent(response) == [kind |-> "Completed", response |-> response]
ErrorItem(error) == [kind |-> "Error", error |-> error]

DecoderInit == BridgeFresh /\ CoreFresh

DecoderFrame == UNCHANGED <<vars, pushVars, httpVars, policyVars, frontVars>>

\* the accumulators after a payload, and its events
Decode(payload) ==
    LET d == parse_stream_payload(Accumulators, payload) IN
    /\ aggregated_content' = d.aggregated_content
    /\ tool_call_builders' = d.tool_call_builders
    /\ reasoning_buffer' = d.reasoning
    /\ received' = received \o Sent(payload)
    /\ payloads' = payloads + 1

\* yield LLMStreamEvent::Completed { response }, with the accumulators as
\* they are in the next state
Complete(events, how) ==
    /\ emitted' = emitted \o events \o <<CompletedEvent(finalize_stream_response')>>
    /\ stream_pc' = "closed"
    /\ ended_by' = how

\* the ? of a read or of a parse: the stream yields the error and ends
DecoderFailsOpen(error) ==
    /\ emitted' = Append(emitted, ErrorItem(error))
    /\ stream_pc' = "reading"
    /\ ended_by' = error
    /\ UNCHANGED <<aggregated_content, tool_call_builders, reasoning_buffer,
                   received, payloads>>

DecoderFails(error) ==
    /\ emitted' = Append(emitted, ErrorItem(error))
    /\ stream_pc' = "closed"
    /\ ended_by' = error
    /\ UNCHANGED <<aggregated_content, tool_call_builders, reasoning_buffer,
                   received, payloads>>

\* an event with a JSON payload, inside the read loop
StreamPayload ==
    /\ stream_pc = "reading"
    /\ payloads < MaxPayloads
    /\ \E payload \in Payloads :
        /\ Decode(payload)
        /\ emitted' = emitted \o
               EventsOf(parse_stream_payload(Accumulators, payload).fragments)
    /\ UNCHANGED <<stream_pc, ended_by>>
    /\ DecoderFrame

\* an event whose payload is not JSON
StreamBadPayload ==
    /\ stream_pc = "reading"
    /\ DecoderFails("Provider")
    /\ DecoderFrame

\* body_stream.next() gives an error
StreamNetworkError ==
    /\ stream_pc = "reading"
    /\ DecoderFails("Network")
    /\ DecoderFrame

\* the [DONE] payload, inside the read loop
StreamDone ==
    /\ stream_pc = "reading"
    /\ UNCHANGED <<aggregated_content, tool_call_builders, reasoning_buffer,
                   received, payloads>>
    /\ Complete(<<>>, "done")
    /\ DecoderFrame

\* the body ends; what is left in the buffer is nothing, [DONE], a payload
\* that is not JSON, or a JSON payload
StreamEndOfBody ==
    /\ stream_pc = "reading"
    /\ \/ /\ UNCHANGED <<aggregated_content, tool_call_builders,
                         reasoning_buffer, received, payloads>>
          /\ Complete(<<>>, "eof")
       \/ DecoderFails("Provider")
       \/ /\ payloads < MaxPayloads
          /\ \E payload \in Payloads :
              /\ Decode(payload)
              /\ Complete(EventsOf(parse_stream_payload(Accumulators, payload).fragments),
                          "eof")
    /\ DecoderFrame

DecoderNext ==
    \/ StreamPayload
    \/ StreamBadPayload
    \/ StreamNetworkError
    \/ StreamDone
    \/ StreamEndOfBody

DecoderSpec ==
    DecoderInit /\ [][DecoderNext]_<<decoderVars, reasoning_buffer>>

(***************************************************************************)
(* Properties of the stream decoder                                        *)
(***************************************************************************)
Builders == 1..Len(tool_call_builders)

\* the stream ended with its Completed event
EndedCompleted == ended_by \in {"done", "eof"}

\* every builder took the fragments of its own index only
RoutedByIndex == \A k \in Builders : tool_call_builders[k].from \subseteq {k - 1}

\* C14: tool-call fragments are accumulated by the index the server gave
\* them: the builder at index i takes fragments of index i only, wherever
\* they stand in the delta array, so that fragments of one index extend one
\* tool call and fragments of two indices never merge; a builder that took
\* nothing has no name and is dropped at finalize.
C14_FragmentsByServerIndex ==
    /\ RoutedByIndex
    /\ \A k \in Builders :
        tool_call_builders[k].from = {} =>
            FinalizeBuilder(tool_call_builders[k], k - 1) = None

\* the argument fragments received for an index, joined in arrival order
RECURSIVE ReceivedFor(_, _)
ReceivedFor(fragments, index) ==
    IF fragments = <<>> THEN <<>>
    ELSE (IF Head(fragments).index = index THEN Head(fragments).arguments
          ELSE <<>>) \o ReceivedFor(Tail(fragments), index)

\* C15: the arguments of a finalized tool call are the argument fragments
\* received for its index, joined in arrival order, each taken once (and
\* "{}" when there are none), for chat-completion chunks and response-event
\* chunks alike.  Stated for the streams whose fragments all reached the
\* builder of their index.
C15_ArgumentsAreTheFragmentsOnce ==
    (EndedCompleted /\ RoutedByIndex) =>
        \A k \in Builders :
            IsSome(tool_call_builders[k].name) =>
                Unwrap(FinalizeBuilder(tool_call_builders[k], k - 1)).arguments
                    = IF ReceivedFor(received, k - 1) = <<>> THEN <<"{", "}">>
                      ELSE ReceivedFor(received, k - 1)

\* the tool calls of the response of the Completed event
DecodedToolCalls ==
    IF EndedCompleted /\ IsSome(emitted[Len(emitted)].response.tool_calls)
    THEN Unwrap(emitted[Len(emitted)].response.tool_calls)
    ELSE <<>>

\* C16: every tool call of the decoded response has a non-empty name and
\* non-empty arguments.
C16_ToolCallsNamedWithArguments ==
    \A k \in 1..Len(DecodedToolCalls) :
        /\ DecodedToolCalls[k].name # <<>>
        /\ DecodedToolCalls[k].arguments # <<>>

\* C17: Completed and the error are last in the stream: a stream that ends
\* by [DONE] or by the end of the body has one Completed event, its last
\* one, and a stream that fails has its error last and no Completed.
C17_CompletedOnceAndLast ==
    /\ \A i \in 1..Len(emitted) :
        emitted[i].kind \in {"Completed", "Error"} => i = Len(emitted)
    /\ EndedCompleted =>
        /\ stream_pc = "closed"
        /\ emitted # <<>>
        /\ emitted[Len(emitted)].kind = "Completed"
    /\ ended_by \in {"Provider", "Network"} =>
        /\ stream_pc = "closed"
        /\ emitted[Len(emitted)] = ErrorItem(ended_by)
    /\ ended_by = "none" => stream_pc = "reading"

\* a body that ends on a payload without boundary, after an earlier payload
\* that gave events
C17_Witness ==
    /\ ended_by = "eof"
    /\ payloads = MaxPayloads
    /\ Len(emitted) >= 3
    /\ emitted[1].kind \in {"Token", "Reasoning"}

\* the text appears in a Token event or in the aggregated content
TakenAsContent(text) ==
    \/ \E k \in 1..Len(emitted) :
           /\ emitted[k].kind = "Token"
           /\ \E i \in 1..Len(emitted[k].delta) : emitted[k].delta[i] = text[1]
    \/ \E i \in 1..Len(aggregated_content) : aggregated_content[i] = text[1]

\* C35: the text of a reasoning delta, of a response.reasoning.delta event
\* or of delta.reasoning of a chat chunk, is in no Token event and not in the
\* aggregated content.
C35_ReasoningNeverContent ==
    /\ ~TakenAsContent(ChatReasoningText)
    /\ ~TakenAsContent(ResponseReasoningText)

\* the same for delta.reasoning of a chat chunk alone
ChatReasoningNeverContent == ~TakenAsContent(ChatReasoningText)

\* a chat chunk's reasoning went out as a Reasoning event
ChatReasoningEmitted ==
    \E k \in 1..Len(emitted) :
        emitted[k].kind = "Reasoning" /\ emitted[k].delta = ChatReasoningText

\* acp/zed.rs, the stream loop of prompt: the AgentThoughtChunk of the
\* Completed arm, response.reasoning unless it is empty
CompletedThought(response) ==
    IF IsSome(response.reasoning) /\ Unwrap(response.reasoning) # <<>>
    THEN response.reasoning
    ELSE None

\* the contents of the AgentThoughtChunk updates the loop sends for the
\* events of a stream, with no cancel and every update forwarded: the
\* Reasoning arm sends the delta, the Completed arm ends the loop, an Err
\* event ends prompt
RECURSIVE ThoughtChunks(_)
ThoughtChunks(events) ==
    IF events = <<>> THEN <<>>
    ELSE IF Head(events).kind = "Reasoning"
    THEN (IF Head(events).delta # <<>> THEN <<Head(events).delta>> ELSE <<>>)
         \o ThoughtChunks(Tail(events))
    ELSE IF Head(events).kind = "Completed"
    THEN CompletedThought(Head(events).response)
    ELSE IF Head(events).kind = "Error" THEN <<>>
    ELSE ThoughtChunks(Tail(events))

\* a Reasoning event with text came before place k of the stream
ThoughtSentBefore(k) ==
    \E j \in 1..(k - 1) :
        emitted[j].kind = "Reasoning" /\ emitted[j].delta # <<>>

\* C36: in a streaming turn, when reasoning went out as AgentThoughtChunk
\* deltas, the Completed event makes the loop send no AgentThoughtChunk.
C36_CompletedSendsNoThoughtAgain ==
    \A k \in 1..Len(emitted) :
        (emitted[k].kind = "Completed" /\ ThoughtSentBefore(k)) =>
            CompletedThought(emitted[k].response) = None

\* the reasoning reaches the client at least once: a Completed event with
\* reasoning makes the loop send a thought chunk that holds it
CompletedReasoningIsSent ==
    \A k \in 1..Len(emitted) :
        (emitted[k].kind = "Completed" /\ IsSome(emitted[k].response.reasoning)) =>
            /\ ThoughtChunks(emitted) # <<>>
            /\ ThoughtChunks(emitted)[Len(ThoughtChunks(emitted))]
                   = Unwrap(emitted[k].response.reasoning)


(***************************************************************************)
(* openrouter.rs: send_with_tool_fallback                                  *)
(***************************************************************************)
\* the fields of an LLMRequest the fallback is about
LLMRequests ==
    [tools : {None, Some(<<>>), Some(<<"read_file">>)},
     tool_choice : {None, Some("Auto")},
     parallel_tool_calls : {None, Some(TRUE)}]

\* an answer of the provider: the status and what the body contains
HttpAnswers ==
    [status : {200, 404, 429, 500}, tool_unsupported : BOOLEAN, quota : BOOLEAN]

\* the send fails: there is no answer (status 0 stands for none)
NoAnswer == [status |-> 0, tool_unsupported |-> FALSE, quota |-> FALSE]

\* the outcomes of dispatch_request: the send fails, or an answer
DispatchOutcomes == {NoAnswer} \cup HttpAnswers

request_includes_tools(request) ==
    IsSome(request.tools) /\ Unwrap(request.tools) # <<>>

tool_free_request_keeps_tools(original) ==
    [original EXCEPT !.tool_choice = Some("None"),
                     !.parallel_tool_calls = None]

tool_free_request(original) ==
    [original EXCEPT !.tools = None,
                     !.tool_choice = Some("None"),
                     !.parallel_tool_calls = None]

\* build_provider_payload with the stream flag of the caller: the tools
\* member is there for a list of tools that is not empty
ProviderPayload(request, stream_override) ==
    [tools |-> IF request_includes_tools(request) THEN request.tools ELSE None,
     tool_choice |-> request.tool_choice,
     parallel_tool_calls |-> request.parallel_tool_calls,
     stream |-> stream_override]

is_tool_unsupported_error(answer) ==
    answer.status = 404 /\ answer.tool_unsupported

IsSuccess(answer) == answer.status = 200

IsRateLimit(answer) == answer.status = 429 \/ answer.quota

HttpInit == BridgeFresh /\ CoreFresh

HttpFrame ==
    UNCHANGED <<vars, decoderVars, reasoning_buffer, pushVars, policyVars,
                frontVars>>

HttpReturn(result) ==
    /\ http_result' = result
    /\ http_pc' = "done"

\* generate (stream_override None) or stream (Some(true)) calls
\* send_with_tool_fallback, which builds the payload and dispatches it
SendRequest ==
    /\ http_pc = "idle"
    /\ \E request \in LLMRequests, stream_override \in {None, Some(TRUE)} :
        /\ llm_request' = Some([request |-> request,
                                stream_override |-> stream_override])
        /\ dispatched' = <<ProviderPayload(request, stream_override)>>
    /\ http_pc' = "first"
    /\ UNCHANGED <<responses, http_result>>
    /\ HttpFrame

\* the first dispatch returns
FirstAnswer ==
    /\ http_pc = "first"
    /\ \E outcome \in DispatchOutcomes :
        /\ responses' = Append(responses, outcome)
        /\ IF outcome = NoAnswer
           THEN HttpReturn("Network") /\ UNCHANGED dispatched
           ELSE IF IsSuccess(outcome)
           THEN HttpReturn("Ok") /\ UNCHANGED dispatched
           ELSE IF IsRateLimit(outcome)
           THEN HttpReturn("RateLimit") /\ UNCHANGED dispatched
           ELSE IF /\ request_includes_tools(Unwrap(llm_request).request)
                   /\ is_tool_unsupported_error(outcome)
           THEN /\ dispatched' = Append(dispatched,
                        ProviderPayload(tool_free_request(Unwrap(llm_request).request),
                                        Unwrap(llm_request).stream_override))
                /\ http_pc' = "fallback"
                /\ UNCHANGED http_result
           ELSE HttpReturn("Provider") /\ UNCHANGED dispatched
    /\ UNCHANGED llm_request
    /\ HttpFrame

\* the fallback dispatch returns
FallbackAnswer ==
    /\ http_pc = "fallback"
    /\ \E outcome \in DispatchOutcomes :
        /\ responses' = Append(responses, outcome)
        /\ IF outcome = NoAnswer THEN HttpReturn("Network")
           ELSE IF IsSuccess(outcome) THEN HttpReturn("Ok")
           ELSE IF IsRateLimit(outcome) THEN HttpReturn("RateLimit")
           ELSE HttpReturn("Provider")
    /\ UNCHANGED <<llm_request, dispatched>>
    /\ HttpFrame

HttpNext == SendRequest \/ FirstAnswer \/ FallbackAnswer

HttpSpec == HttpInit /\ [][HttpNext]_httpVars

\* the first answer to a request with tools is the 404 of a provider
\* without tool support
ToolUnsupportedAnswered ==
    /\ responses # <<>>
    /\ request_includes_tools(Unwrap(llm_request).request)
    /\ is_tool_unsupported_error(responses[1])

\* one retry, without tools and with tool_choice None
RetriedOnceToolFree ==
    /\ Len(dispatched) = 2
    /\ dispatched[2].tools = None
    /\ dispatched[2].tool_choice = Some("None")

\* C19 as stated: after a 404 whose body says that no endpoint supports
\* tool use, to a request with tools, the adapter has retried once without
\* tools and with tool_choice None; no call dispatches more than two
\* requests.
C19_ToolUnsupportedRetriedOnce ==
    /\ ToolUnsupportedAnswered => RetriedOnceToolFree
    /\ Len(dispatched) <= 2

\* C19 amended: the same for a 404 body that does not contain "quota".
C19_ToolUnsupportedNoQuotaRetriedOnce ==
    /\ (ToolUnsupportedAnswered /\ ~responses[1].quota) => RetriedOnceToolFree
    /\ Len(dispatched) <= 2

\* the retry was answered too
C19_Witness ==
    /\ ToolUnsupportedAnswered
    /\ ~responses[1].quota
    /\ Len(responses) = 2
    /\ http_pc = "done"


(***************************************************************************)
(* vtcode-core/src/tools/registry/policy.rs: apply_policy_constraints      *)
(*                                                                         *)
(* A JSON value of an argument is a record of its kind and, for numbers,   *)
(* its value; the arguments are the members the function reads or writes.  *)
(***************************************************************************)
\* the largest cap of a policy; requests go one beyond it
MaxCap == 2

U64(n) == [kind |-> "u64", value |-> n]

\* what a caller can put in a numeric argument: an unsigned integer, a
\* negative integer, a number with a fraction (its integer part as value),
\* a string or null
RequestedValues ==
    {U64(n) : n \in 0..(MaxCap + 1)}
    \cup {[kind |-> "i64", value |-> -1],
          [kind |-> "f64", value |-> MaxCap + 1],
          [kind |-> "string", value |-> 0],
          [kind |-> "null", value |-> 0]}

\* Value::as_u64
as_u64(value) == IF value.kind = "u64" THEN Some(value.value) ELSE None

CappedTools == {"list_files", "grep_search", "read_file", "curl"}

\* the argument a tool's cap is about, and the constraint that holds the cap
CappedArgument(name) ==
    CASE name = "list_files" -> "max_items"
      [] name = "grep_search" -> "max_results"
      [] OTHER -> "max_bytes"

CapOf(name, constraints) ==
    CASE name = "list_files" -> constraints.max_items_per_call
      [] name = "grep_search" -> constraints.max_results_per_call
      [] name = "read_file" -> constraints.max_bytes_per_read
      [] OTHER -> constraints.max_response_bytes

NoArgs ==
    [max_items |-> None, max_results |-> None, max_bytes |-> None,
     mode |-> None, url |-> None, response_format |-> None,
     policy_note |-> None]

\* a host name is the sequence of its labels
RECURSIVE IsSuffix(_, _)
IsSuffix(suffix, labels) ==
    IF Len(suffix) > Len(labels) THEN FALSE
    ELSE IF Len(suffix) = Len(labels) THEN suffix = labels
    ELSE IsSuffix(suffix, Tail(labels))

\* the closure over denied_hosts, for patterns and hosts in lower case and
\* patterns without a leading dot: the host, or a subdomain of it
HostBlocked(denied_hosts, host) ==
    \E pattern \in denied_hosts : IsSuffix(pattern, host)

PolicyOk(args) == [ok |-> TRUE, args |-> args, error |-> "none"]
PolicyErr(error) == [ok |-> FALSE, args |-> NoArgs, error |-> error]

ExceedsOrReaches(requested, cap) == requested >= cap

\* requested > cap
Exceeds(requested, cap) == requested > cap

\* the arm of a tool: the cap replaces a larger requested value, with a note
\* (usize is as wide as u64 on the targets of the program, so that the casts
\* keep the value)
ClampToCap(name, args, constraints) ==
    LET cap == CapOf(name, constraints)
        argument == CappedArgument(name)
        requested == IF IsSome(args[argument]) /\ IsSome(as_u64(Unwrap(args[argument])))
                     THEN Unwrap(as_u64(Unwrap(args[argument])))
                     ELSE Unwrap(cap)
    IN IF IsSome(cap) /\ Exceeds(requested, Unwrap(cap))
       THEN [args EXCEPT ![argument] = Some(U64(Unwrap(cap))),
                         !.policy_note = Some(<<"Capped", argument, Unwrap(cap)>>)]
       ELSE args

\* the checks of the url of curl
CheckUrl(args, constraints) ==
    IF ~IsSome(args.url) THEN PolicyErr("url required")
    ELSE IF ~Unwrap(args.url).parses THEN PolicyErr("invalid url")
    ELSE IF /\ IsSome(constraints.allowed_url_schemes)
            /\ Unwrap(args.url).scheme \notin Unwrap(constraints.allowed_url_schemes)
    THEN PolicyErr("scheme not allowed")
    ELSE IF /\ IsSome(constraints.denied_url_hosts)
            /\ HostBlocked(Unwrap(constraints.denied_url_hosts), Unwrap(args.url).host)
    THEN PolicyErr("host blocked")
    ELSE PolicyOk(args)

\* apply_policy_constraints; constraints is None for a tool without any, and
\* is_object tells whether the arguments are a JSON object
apply_policy_constraints(name, is_object, args, constraints) ==
    IF ~IsSome(constraints) THEN PolicyOk(args)
    ELSE IF ~is_object THEN PolicyErr("arguments must be an object")
    ELSE LET c == Unwrap(constraints)
             formatted == IF IsSome(c.default_response_format) /\ ~IsSome(args.response_format)
                          THEN [args EXCEPT !.response_format = c.default_response_format]
                          ELSE args
         IN IF /\ IsSome(c.allowed_modes)
               /\ IsSome(args.mode)
               /\ Unwrap(args.mode) \notin Unwrap(c.allowed_modes)
            THEN PolicyErr("mode not allowed")
            ELSE IF name \notin CappedTools THEN PolicyOk(formatted)
            ELSE IF name = "curl" THEN CheckUrl(ClampToCap(name, formatted, c), c)
            ELSE PolicyOk(ClampToCap(name, formatted, c))

Caps == {None} \cup {Some(cap) : cap \in 1..MaxCap}

\* the constraints of a tool: its own cap, and no room at all under the caps
\* of the other tools
ConstraintsFor(name) ==
    {[max_items_per_call |-> IF name = "list_files" THEN cap ELSE Some(0),
      max_results_per_call |-> IF name = "grep_search" THEN cap ELSE Some(0),
      max_bytes_per_read |-> IF name = "read_file" THEN cap ELSE Some(0),
      max_response_bytes |-> IF name = "curl" THEN cap ELSE Some(0),
      default_response_format |-> format,
      allowed_modes |-> modes,
      allowed_url_schemes |-> schemes,
      denied_url_hosts |-> hosts] :
        cap \in Caps,
        format \in {None, Some("concise")},
        modes \in {None, Some({"list"})},
        schemes \in IF name = "curl" THEN {None, Some({"https"})} ELSE {None},
        hosts \in IF name = "curl" THEN {None, Some({<<"evil", "com">>})}
                  ELSE {None}}

Urls ==
    {None, Some([parses |-> FALSE, scheme |-> "", host |-> <<>>])}
    \cup {Some([parses |-> TRUE, scheme |-> scheme, host |-> host]) :
            scheme \in {"https", "ftp"},
            host \in {<<"example", "com">>, <<"a", "evil", "com">>}}

ArgsFor(name) ==
    {[NoArgs EXCEPT ![CappedArgument(name)] = requested,
                    !.mode = mode, !.url = url] :
        requested \in {None} \cup {Some(value) : value \in RequestedValues},
        mode \in {None, Some("list"), Some("recursive")},
        url \in IF name = "curl" THEN Urls ELSE {None}}

PolicyInit == BridgeFresh /\ CoreFresh

\* one call of apply_policy_constraints
ApplyPolicy ==
    /\ policy_call = None
    /\ \E name \in CappedTools \cup {"run_terminal_cmd"}, is_object \in BOOLEAN :
        \E args \in ArgsFor(name),
           constraints \in {None} \cup {Some(c) : c \in ConstraintsFor(name)} :
            /\ policy_call' = Some([name |-> name, is_object |-> is_object,
                                    args |-> args, constraints |-> constraints])
            /\ policy_result' =
                   Some(apply_policy_constraints(name, is_object, args, constraints))
    /\ UNCHANGED <<vars, decoderVars, reasoning_buffer, pushVars, httpVars,
                   frontVars>>

PolicyNext == ApplyPolicy

PolicySpec == PolicyInit /\ [][PolicyNext]_policyVars

\* a call that succeeded, to a tool with a cap, with an unsigned integer as
\* the requested value
CappedCallReturned ==
    /\ IsSome(policy_result)
    /\ Unwrap(policy_result).ok
    /\ Unwrap(policy_call).name \in CappedTools
    /\ IsSome(Unwrap(policy_call).constraints)
    /\ IsSome(CapOf(Unwrap(policy_call).name, Unwrap(Unwrap(policy_call).constraints)))
    /\ IsSome(Unwrap(policy_call).args[CappedArgument(Unwrap(policy_call).name)])
    /\ IsSome(as_u64(Unwrap(Unwrap(policy_call).args[CappedArgument(Unwrap(policy_call).name)])))

\* C20: for each of the four tools with a cap, the arguments returned by
\* apply_policy_constraints hold the cap when the requested value (an
\* unsigned integer) exceeds it, and hold the requested value, without
\* _policy_note, when it is at or below the cap.
C20_ClampToCapOnlyAbove ==
    CappedCallReturned =>
        LET call == Unwrap(policy_call)
            argument == CappedArgument(call.name)
            cap == Unwrap(CapOf(call.name, Unwrap(call.constraints)))
            requested == Unwrap(call.args[argument])
            returned == Unwrap(policy_result).args
        IN IF requested.value > cap
           THEN returned[argument] = Some(U64(cap))
           ELSE /\ returned[argument] = Some(requested)
                /\ returned.policy_note = None

\* curl asked for more bytes than the cap and got the cap
C20_Witness ==
    /\ CappedCallReturned
    /\ Unwrap(policy_call).name = "curl"
    /\ Unwrap(Unwrap(policy_call).args.max_bytes).value = MaxCap + 1
    /\ Unwrap(policy_result).args.max_bytes = Some(U64(MaxCap))
    /\ IsSome(Unwrap(policy_result).args.policy_note)

\* a call that succeeded, to a tool with a cap, whatever the requested value
AnyCappedCallReturned ==
    /\ IsSome(policy_result)
    /\ Unwrap(policy_result).ok
    /\ Unwrap(policy_call).name \in CappedTools
    /\ IsSome(Unwrap(policy_call).constraints)
    /\ IsSome(CapOf(Unwrap(policy_call).name, Unwrap(Unwrap(policy_call).constraints)))

\* C34: after a successful call for a tool with a cap, the capped argument
\* of the returned object, if present, is an unsigned integer not above the
\* cap, whatever JSON value the caller supplied.
C34_ReturnedWithinCap ==
    AnyCappedCallReturned =>
        LET call == Unwrap(policy_call)
            cap == Unwrap(CapOf(call.name, Unwrap(call.constraints)))
            returned == Unwrap(policy_result).args[CappedArgument(call.name)]
        IN IsSome(returned) =>
               /\ Unwrap(returned).kind = "u64"
               /\ Unwrap(returned).value <= cap

\* the same for the requests as_u64 reads
ReturnedWithinCapForUnsigned ==
    CappedCallReturned =>
        LET call == Unwrap(policy_call)
            cap == Unwrap(CapOf(call.name, Unwrap(call.constraints)))
            returned == Unwrap(policy_result).args[CappedArgument(call.name)]
        IN Unwrap(returned).kind = "u64" /\ Unwrap(returned).value <= cap


(***************************************************************************)
(* vtcode-core/src/core/context_curator.rs                                 *)
(*                                                                         *)
(* A message is the keywords of its content and its estimated_tokens; a    *)
(* file summary and an error are the lengths of their texts; a tool name   *)
(* is the sequence of its words.                                           *)
(***************************************************************************)
\* messages of a conversation
MaxMessages == 5
\* tools on offer
MaxTools == 6
\* the largest remaining token budget
MaxRemaining == 16

\* summary.len() / 4 and error_message.len() / 4
CharsPerToken == 4
\* the tools and the messages compress_context does not go below
MinTools == 5
MinMessages == 3
\* what compress_context takes off for a file
FileDropEstimate == 100

Estimate(length) == length \div CharsPerToken

\* a.saturating_sub(b)
SaturatingSub(a, b) == IF a > b THEN a - b ELSE 0

Min(a, b) == IF a < b THEN a ELSE b

RECURSIVE SumTokens(_)
SumTokens(items) ==
    IF items = <<>> THEN 0
    ELSE Head(items).estimated_tokens + SumTokens(Tail(items))

\* CuratedContext::new
NewContext ==
    [recent_messages |-> <<>>, active_files |-> <<>>, ledger_summary |-> None,
     recent_errors |-> <<>>, relevant_tools |-> <<>>, estimated_tokens |-> 0,
     phase |-> "Unknown"]

add_recent_messages(context, conversation, count) ==
    LET start == SaturatingSub(Len(conversation), count)
        extended == context.recent_messages
                        \o SubSeq(conversation, start + 1, Len(conversation))
    IN [context EXCEPT !.recent_messages = extended,
                       !.estimated_tokens = @ + SumTokens(extended)]

add_file_context(context, summary) ==
    [context EXCEPT !.estimated_tokens = @ + Estimate(summary),
                    !.active_files = Append(@, summary)]

add_ledger_summary(context, summary) ==
    [context EXCEPT !.estimated_tokens = @ + Estimate(summary),
                    !.ledger_summary = Some(summary)]

add_error_context(context, error) ==
    [context EXCEPT !.estimated_tokens = @ + Estimate(error),
                    !.recent_errors = Append(@, error)]

add_tools(context, tools) ==
    [context EXCEPT !.estimated_tokens = @ + SumTokens(tools),
                    !.relevant_tools = tools]

\* the keyword chain of detect_phase over the content of the last message
PhaseOfContent(content) ==
    IF content \cap {"search", "find", "list"} # {} THEN "Exploration"
    ELSE IF content \cap {"edit", "write", "create", "modify"} # {}
    THEN "Implementation"
    ELSE IF content \cap {"test", "run", "check", "verify"} # {}
    THEN "Validation"
    ELSE IF content \cap {"error", "fix", "debug"} # {} THEN "Debugging"
    ELSE "Unknown"

\* detect_phase: the value it returns and stores in current_phase
detect_phase(conversation, errors, phase) ==
    LET by_content == IF conversation = <<>> THEN "Unknown"
                      ELSE PhaseOfContent(conversation[Len(conversation)].content)
        by_errors == IF by_content = "Unknown" /\ errors # <<>>
                     THEN "Debugging" ELSE by_content
    IN IF by_errors = "Unknown" THEN phase ELSE by_errors

\* tool.name.contains(word)
NameContains(tool, word) == \E i \in 1..Len(tool.name) : tool.name[i] = word

\* the tools a phase looks for
Wanted(tool, phase) ==
    CASE phase = "Exploration" ->
            \E word \in {"grep", "list", "search", "ast_grep"} :
                NameContains(tool, word)
      [] phase = "Implementation" ->
            \E word \in {"edit", "write", "read"} : NameContains(tool, word)
      [] phase = "Validation" ->
            \E word \in {"run", "terminal"} : NameContains(tool, word)
      [] OTHER -> FALSE

\* for tool in available_tools { if wanted { push; if len >= max { break } } }
RECURSIVE SelectWanted(_, _, _, _)
SelectWanted(available, phase, selected, max_tools) ==
    IF available = <<>> THEN selected
    ELSE IF Wanted(Head(available), phase)
    THEN IF Len(selected) + 1 >= max_tools THEN Append(selected, Head(available))
         ELSE SelectWanted(Tail(available), phase,
                           Append(selected, Head(available)), max_tools)
    ELSE SelectWanted(Tail(available), phase, selected, max_tools)

\* the loop that fills the quota with the tools not selected yet
RECURSIVE FillQuota(_, _, _)
FillQuota(available, selected, max_tools) ==
    IF available = <<>> THEN selected
    ELSE IF \A i \in 1..Len(selected) : selected[i].name # Head(available).name
    THEN IF Len(selected) + 1 >= max_tools THEN Append(selected, Head(available))
         ELSE FillQuota(Tail(available), Append(selected, Head(available)),
                        max_tools)
    ELSE FillQuota(Tail(available), selected, max_tools)

select_relevant_tools(available, phase, max_tools) ==
    LET by_phase ==
            IF phase \in {"Debugging", "Unknown"}
            THEN SubSeq(available, 1, Min(max_tools, Len(available)))
            ELSE SelectWanted(available, phase, <<>>, max_tools)
    IN IF Len(by_phase) < max_tools
       THEN FillQuota(available, by_phase, max_tools)
       ELSE by_phase

\* the four loops of compress_context
RECURSIVE ReduceTools(_, _)
ReduceTools(context, budget) ==
    IF context.estimated_tokens > budget /\ Len(context.relevant_tools) > MinTools
    THEN LET tools == context.relevant_tools IN
         ReduceTools([context EXCEPT
                        !.relevant_tools = SubSeq(tools, 1, Len(tools) - 1),
                        !.estimated_tokens =
                            SaturatingSub(@, tools[Len(tools)].estimated_tokens)],
                     budget)
    ELSE context

RECURSIVE ReduceFiles(_, _)
ReduceFiles(context, budget) ==
    IF context.estimated_tokens > budget /\ context.active_files # <<>>
    THEN ReduceFiles([context EXCEPT
                        !.active_files = SubSeq(@, 1, Len(@) - 1),
                        !.estimated_tokens = SaturatingSub(@, FileDropEstimate)],
                     budget)
    ELSE context

RECURSIVE ReduceErrors(_, _)
ReduceErrors(context, budget) ==
    IF context.estimated_tokens > budget /\ context.recent_errors # <<>>
    THEN LET errors == context.recent_errors IN
         ReduceErrors([context EXCEPT
                        !.recent_errors = SubSeq(errors, 1, Len(errors) - 1),
                        !.estimated_tokens =
                            SaturatingSub(@, Estimate(errors[Len(errors)]))],
                      budget)
    ELSE context

RECURSIVE ReduceMessages(_, _)
ReduceMessages(context, budget) ==
    IF context.estimated_tokens > budget
       /\ Len(context.recent_messages) > MinMessages
    THEN ReduceMessages([context EXCEPT
                            !.recent_messages = Tail(@),
                            !.estimated_tokens =
                                SaturatingSub(@, Head(context.recent_messages).estimated_tokens)],
                        budget)
    ELSE context

compress_context(context, budget) ==
    IF context.estimated_tokens <= budget THEN context
    ELSE ReduceMessages(
            ReduceErrors(ReduceFiles(ReduceTools(context, budget), budget), budget),
            budget)

\* add_file_context for the active files that have a summary, in the order
\* the HashSet gives them
RECURSIVE AddFiles(_, _)
AddFiles(context, order) ==
    IF order = <<>> THEN context
    ELSE AddFiles(
            IF IsSome(file_summaries[Head(order)])
            THEN add_file_context(context, Unwrap(file_summaries[Head(order)]))
            ELSE context,
            Tail(order))

\* add_error_context for the newest error_count errors, newest first
RECURSIVE AddErrors(_, _, _)
AddErrors(context, errors, error_count) ==
    IF error_count = 0 \/ errors = <<>> THEN context
    ELSE AddErrors(add_error_context(context, errors[Len(errors)]),
                   SubSeq(errors, 1, Len(errors) - 1), error_count - 1)

\* curate_context; remaining is token_budget.remaining_tokens(), ledger the
\* length of render_ledger_brief and order the iteration of active_files
curate_context(conversation, available_tools, remaining, ledger, order) ==
    IF ~curation_config.enabled
    THEN add_tools(add_recent_messages(NewContext, conversation, Len(conversation)),
                   available_tools)
    ELSE LET budget == Min(remaining, curation_config.max_tokens_per_turn)
             phase == detect_phase(conversation, recent_errors, current_phase)
             with_messages ==
                 add_recent_messages([NewContext EXCEPT !.phase = phase],
                     conversation,
                     Min(curation_config.preserve_recent_messages, Len(conversation)))
             with_files == AddFiles(with_messages, order)
             with_ledger == IF curation_config.include_ledger /\ ledger # 0
                            THEN add_ledger_summary(with_files, ledger)
                            ELSE with_files
             with_errors ==
                 IF curation_config.include_recent_errors
                 THEN AddErrors(with_ledger, recent_errors,
                          Min(curation_config.max_recent_errors, Len(recent_errors)))
                 ELSE with_ledger
             with_tools ==
                 add_tools(with_errors,
                     select_relevant_tools(available_tools, phase,
                         curation_config.max_tool_descriptions))
         IN IF with_tools.estimated_tokens > budget
            THEN compress_context(with_tools, budget)
            ELSE with_tools

\* the tools on offer: tool k of the catalogue
ToolWords == <<"grep", "edit", "run", "read", "list", "write">>

ToolAt(k) ==
    [name |-> <<ToolWords[((k - 1) % Len(ToolWords)) + 1], ToString(k)>>,
     estimated_tokens |-> 1 + (k % 2)]

ToolSets == {[k \in 1..n |-> ToolAt(k)] : n \in 0..MaxTools}

Contents == {{}, {"search"}, {"edit"}, {"test"}, {"error"}, {"fix", "list"}}

\* conversations of messages of one size, the last one with keywords
Conversations ==
    {[k \in 1..n |-> [content |-> IF k = n THEN content ELSE {},
                      estimated_tokens |-> tokens]] :
        n \in 0..MaxMessages, tokens \in {1, 3}, content \in Contents}

Remainings == {0, MaxRemaining \div 2, MaxRemaining}

\* the summary of a.rs is short, the one of b.rs long
SummaryLength(path) == IF path = "a.rs" THEN 8 ELSE 800

\* the orders in which a HashSet of paths can be iterated
Orders(paths) ==
    {order \in UNION {[1..n -> paths] : n \in {Cardinality(paths)}} :
        \A i, j \in 1..Len(order) : i # j => order[i] # order[j]}

CuratorInit ==
    /\ BridgeFresh
    /\ BackFresh
    /\ \E enabled \in BOOLEAN : CuratorFresh(enabled)
    /\ TuiFresh(5)
    /\ DriverFresh
    /\ RunFresh

CuratorFrame == UNCHANGED <<vars, decoderVars, reasoning_buffer, pushVars,
                            httpVars, policyVars, curation_config, tuiVars,
                            driver, terminal, runVars>>

mark_file_active ==
    /\ \E path \in FilePaths : active_files' = active_files \cup {path}
    /\ curated' = None
    /\ UNCHANGED <<current_phase, recent_errors, file_summaries>>
    /\ CuratorFrame

add_file_summary ==
    /\ \E path \in FilePaths :
        file_summaries' = [file_summaries EXCEPT ![path] = Some(SummaryLength(path))]
    /\ curated' = None
    /\ UNCHANGED <<current_phase, recent_errors, active_files>>
    /\ CuratorFrame

\* an error with a message of 8 characters
add_error ==
    /\ recent_errors' =
           IF Len(recent_errors) + 1 > curation_config.max_recent_errors
           THEN Tail(Append(recent_errors, 8))
           ELSE Append(recent_errors, 8)
    /\ current_phase' = "Debugging"
    /\ curated' = None
    /\ UNCHANGED <<active_files, file_summaries>>
    /\ CuratorFrame

clear_active_files ==
    /\ active_files # {}
    /\ active_files' = {}
    /\ curated' = None
    /\ UNCHANGED <<current_phase, recent_errors, file_summaries>>
    /\ CuratorFrame

clear_errors ==
    /\ recent_errors # <<>>
    /\ recent_errors' = <<>>
    /\ curated' = None
    /\ UNCHANGED <<current_phase, active_files, file_summaries>>
    /\ CuratorFrame

\* one call of curate_context, once the caller has taken the context of the
\* call before
CurateContext ==
    /\ curated = None
    /\ \E conversation \in Conversations, available_tools \in ToolSets,
          remaining \in Remainings, ledger \in {0, 8},
          order \in Orders(active_files) :
        /\ curated' = Some([context |-> curate_context(conversation,
                                available_tools, remaining, ledger, order),
                            budget |-> Min(remaining,
                                curation_config.max_tokens_per_turn)])
        /\ current_phase' =
               IF curation_config.enabled
               THEN detect_phase(conversation, recent_errors, current_phase)
               ELSE current_phase
    /\ UNCHANGED <<recent_errors, active_files, file_summaries>>
    /\ CuratorFrame

CuratorNext ==
    \/ mark_file_active
    \/ add_file_summary
    \/ add_error
    \/ clear_active_files
    \/ clear_errors
    \/ CurateContext

CuratorSpec == CuratorInit /\ [][CuratorNext]_curatorVars

\* C21: the context curate_context returns has estimated_tokens at or below
\* min(token_budget.remaining, max_tokens_per_turn).  Stated for a curator
\* with curation enabled, the case that has a budget at all.
C21_CuratedWithinBudget ==
    (IsSome(curated) /\ curation_config.enabled) =>
        Unwrap(curated).context.estimated_tokens <= Unwrap(curated).budget

\* C22: when recent_errors is not empty as curate_context runs, the phase of
\* the context is Debugging, whatever the last message says.  Stated for a
\* curator with curation enabled, the case that detects a phase.
C22_ErrorsForceDebugging ==
    (IsSome(curated) /\ curation_config.enabled /\ recent_errors # <<>>) =>
        Unwrap(curated).context.phase = "Debugging"

\* the sum of the estimates of summaries or messages given by their lengths
RECURSIVE SumEstimates(_)
SumEstimates(lengths) ==
    IF lengths = <<>> THEN 0
    ELSE Estimate(Head(lengths)) + SumEstimates(Tail(lengths))

\* what the items of a context add up to, each with the estimate it was
\* added with
ItemsEstimate(context) ==
    SumTokens(context.recent_messages)
    + SumEstimates(context.active_files)
    + (IF IsSome(context.ledger_summary)
       THEN Estimate(Unwrap(context.ledger_summary)) ELSE 0)
    + SumEstimates(context.recent_errors)
    + SumTokens(context.relevant_tools)

\* C38: the estimated_tokens of the context curate_context returns is the
\* sum of the estimates of the items the context holds, also after
\* compress_context removed items.
C38_EstimateIsSumOfItems ==
    IsSome(curated) =>
        Unwrap(curated).context.estimated_tokens
            = ItemsEstimate(Unwrap(curated).context)

\* the active files that have a summary: the files curate_context adds
SummarisedFiles == {path \in active_files : IsSome(file_summaries[path])}

\* the same for the contexts that kept every file they were given
EstimateIsSumWhileFilesKept ==
    (/\ IsSome(curated)
     /\ curation_config.enabled
     /\ Len(Unwrap(curated).context.active_files) = Cardinality(SummarisedFiles)) =>
        Unwrap(curated).context.estimated_tokens
            = ItemsEstimate(Unwrap(curated).context)

(***************************************************************************)
(* The inline TUI session (src/vtcode-core/src/ui/tui/session.rs): the     *)
(* transcript, its reflow cache and the scroll offset, counted in wrapped  *)
(* rows above the bottom.  Text is modelled by its width in columns: a     *)
(* line's text is the sequence of the lengths of its pieces between line   *)
(* feeds, a wrapped row is its width.                                      *)
(***************************************************************************)
MaxRevisions == 3

\* USER_PREFIX, "> " with a one-column marker: its width in columns
USER_PREFIX == 2

Max(a, b) == IF a > b THEN a ELSE b


RECURSIVE Columns(_)
Columns(pieces) ==
    IF pieces = <<>> THEN 0 ELSE Head(pieces) + Columns(Tail(pieces))

viewport_height(sn) == Max(sn.transcript_rows, 1)

\* the width of the prefix of a line of this kind
prefix_text(sn, kind) ==
    IF kind = "User"
    THEN Some(IF IsSome(sn.labels.user) THEN Unwrap(sn.labels.user)
              ELSE USER_PREFIX)
    ELSE None

\* the line as one Line: the prefix, then the segments
render_message_spans(sn, line) ==
    LET prefix == IF IsSome(prefix_text(sn, line.kind))
                  THEN Unwrap(prefix_text(sn, line.kind)) ELSE 0
    IN IF line.text = <<>>
       THEN IF prefix > 0 THEN <<prefix>> ELSE <<>>
       ELSE [line.text EXCEPT ![1] = @ + prefix]

\* the rows a run of n one-column graphemes fills
RowsOf(n, max_width) ==
    [i \in 1..((n + max_width - 1) \div max_width) |->
        IF i * max_width <= n THEN max_width ELSE n - (i - 1) * max_width]

RECURSIVE WrapPieces(_, _, _)
WrapPieces(pieces, max_width, rows) ==
    IF pieces = <<>> THEN rows
    ELSE LET n == Head(pieces)
             here == IF n > 0 THEN RowsOf(n, max_width)
                     ELSE IF Len(pieces) = 1 THEN <<>> ELSE <<0>>
         IN WrapPieces(Tail(pieces), max_width, rows \o here)

wrap_line(pieces, max_width) ==
    IF max_width = 0 THEN <<0>>
    ELSE LET rows == WrapPieces(pieces, max_width, <<>>)
         IN IF rows = <<>> THEN <<0>> ELSE rows

message_divider_line(width) == width

reflow_message_lines(sn, message, width) ==
    LET base_line == render_message_spans(sn, message)
    IN IF width = 0 THEN <<Columns(base_line)>>
       ELSE LET divider == IF message.kind = "User"
                           THEN <<message_divider_line(width)>> ELSE <<>>
            IN divider \o wrap_line(base_line, width) \o divider

RECURSIVE Flattened(_)
Flattened(cached) ==
    IF cached = <<>> THEN <<>>
    ELSE Head(cached).lines \o Flattened(Tail(cached))

\* reflow_transcript_lines: the transcript wrapped afresh
reflow_transcript_lines(sn, width) ==
    LET wrapped_lines ==
            Flattened([i \in 1..Len(sn.lines) |->
                [lines |-> reflow_message_lines(sn, sn.lines[i], width)]])
    IN IF wrapped_lines = <<>> THEN <<0>> ELSE wrapped_lines

\* cached_transcript_lines: the session with its cache brought up to date;
\* the wrapped lines are the flattened field of the cache
cached_transcript_lines(given, width) ==
    The({(
            LET cache == sn.transcript_cache
                width_mismatch ==
                    IF IsSome(cache) THEN Unwrap(cache).width # width ELSE TRUE
                revision_matches(i) ==
                    /\ IsSome(cache)
                    /\ i <= Len(Unwrap(cache).messages)
                    /\ Unwrap(cache).messages[i].revision = sn.lines[i].revision
                updates == {i \in 1..Len(sn.lines) :
                               width_mismatch \/ ~revision_matches(i)}
                rebuilt ==
                    [i \in 1..Len(sn.lines) |->
                        IF i \in updates
                        THEN [revision |-> sn.lines[i].revision,
                              lines |-> reflow_message_lines(sn, sn.lines[i],
                                                              width)]
                        ELSE Unwrap(cache).messages[i]]
            IN The({(
                       [sn EXCEPT
                           !.transcript_cache =
                               Some([width |-> width,
                                     messages |-> cached_messages,
                                     flattened |->
                                         IF Flattened(cached_messages) = <<>>
                                         THEN <<0>>
                                         ELSE Flattened(cached_messages)]),
                           !.reflowed = @ \cup updates]
                   ) : cached_messages \in {rebuilt}})
        ) : sn \in {given}})

invalidate_transcript_cache(sn) == [sn EXCEPT !.transcript_cache = None]

invalidate_scroll_metrics(sn) ==
    invalidate_transcript_cache([sn EXCEPT !.scroll_metrics_dirty = TRUE])

ensure_scroll_metrics(given) ==
    The({(
            IF ~sn.scroll_metrics_dirty THEN sn
            ELSE IF sn.transcript_width = 0 \/ viewport_height(sn) = 0
            THEN [sn EXCEPT
                     !.cached_max_scroll_offset =
                         SaturatingSub(Len(sn.lines),
                                       Max(viewport_height(sn), 1)),
                     !.scroll_metrics_dirty = FALSE]
            ELSE The({(
                         [cached EXCEPT
                             !.cached_max_scroll_offset =
                                 SaturatingSub(Len(Unwrap(cached.transcript_cache).flattened),
                                               viewport_height(cached)),
                             !.scroll_metrics_dirty = FALSE]
                     ) : cached \in {cached_transcript_lines(sn, sn.transcript_width)}})
        ) : sn \in {given}})

\* current_max_scroll_offset: the session after the call; the value it
\* returns is the cached_max_scroll_offset of that session
current_max_scroll_offset(sn) == ensure_scroll_metrics(sn)

enforce_scroll_bounds(sn) ==
    The({(
            IF measured.scroll_offset > measured.cached_max_scroll_offset
            THEN [measured EXCEPT
                     !.scroll_offset = measured.cached_max_scroll_offset]
            ELSE measured
        ) : measured \in {current_max_scroll_offset(sn)}})

adjust_scroll_after_change(sn, previous_max_offset) ==
    The({(
            LET new_max_offset == measured.cached_max_scroll_offset
            IN enforce_scroll_bounds(
                   IF /\ measured.scroll_offset >= previous_max_offset
                      /\ new_max_offset > previous_max_offset
                   THEN [measured EXCEPT !.scroll_offset = new_max_offset]
                   ELSE IF /\ measured.scroll_offset > 0
                           /\ new_max_offset > previous_max_offset
                   THEN [measured EXCEPT !.scroll_offset =
                            Min(@ + (new_max_offset - previous_max_offset),
                                new_max_offset)]
                   ELSE measured)
        ) : measured \in {current_max_scroll_offset(sn)}})

\* next_revision, with the line it stamps
PushStamped(given, kind, text) ==
    The({(
            [sn EXCEPT
                !.line_revision_counter = @ + 1,
                !.lines = Append(@, [kind |-> kind, text |-> text,
                                     revision |-> sn.line_revision_counter + 1])]
        ) : sn \in {given}})

push_line(sn, kind, segments) ==
    The({(
            adjust_scroll_after_change(
                invalidate_scroll_metrics(PushStamped(measured, kind, segments)),
                measured.cached_max_scroll_offset)
        ) : measured \in {current_max_scroll_offset(sn)}})

\* text of n columns without control characters, n > 0
append_text(given, kind, n) ==
    The({(
            LET count == Len(sn.lines)
            IN IF count > 0 /\ sn.lines[count].kind = kind
               THEN LET text == sn.lines[count].text
                        grown == IF text = <<>> THEN <<n>>
                                 ELSE [text EXCEPT ![Len(text)] = @ + n]
                    IN invalidate_scroll_metrics(
                           [sn EXCEPT !.line_revision_counter = @ + 1,
                                      !.lines[count].text = grown,
                                      !.lines[count].revision =
                                          sn.line_revision_counter + 1])
               ELSE invalidate_scroll_metrics(PushStamped(sn, kind, <<n>>))
        ) : sn \in {given}})

start_line(sn, kind) == push_line(sn, kind, <<>>)

reset_line(given, kind) ==
    The({(
            LET count == Len(sn.lines)
            IN IF count > 0 /\ sn.lines[count].kind = kind
               THEN invalidate_scroll_metrics(
                        [sn EXCEPT !.line_revision_counter = @ + 1,
                                   !.lines[count].text = <<>>,
                                   !.lines[count].revision =
                                       sn.line_revision_counter + 1])
               ELSE start_line(sn, kind)
        ) : sn \in {given}})

\* the text of an inline segment: runs of text and control characters
Run(n) == [control |-> "none", columns |-> n]
Control(c) == [control |-> c, columns |-> 0]

\* the loop of append_inline over the segment's text
RECURSIVE AppendRuns(_, _, _)
AppendRuns(given, kind, remaining) ==
    The({(
            IF remaining = <<>> THEN sn
            ELSE AppendRuns(
                     CASE Head(remaining).control = "none" ->
                              append_text(sn, kind, Head(remaining).columns)
                       [] Head(remaining).control \in {"\n", "\r\n"} ->
                              start_line(sn, kind)
                       [] OTHER -> reset_line(sn, kind),
                     kind, Tail(remaining))
        ) : sn \in {given}})

append_inline(sn, kind, segment) ==
    The({(
            adjust_scroll_after_change(
                invalidate_scroll_metrics(AppendRuns(measured, kind, segment)),
                measured.cached_max_scroll_offset)
        ) : measured \in {current_max_scroll_offset(sn)}})

RECURSIVE PushAll(_, _, _)
PushAll(sn, kind, texts) ==
    IF texts = <<>> THEN sn
    ELSE PushAll(PushStamped(sn, kind, Head(texts)), kind, Tail(texts))

replace_last(sn, count, kind, texts) ==
    The({(
            LET remove_count == Min(count, Len(measured.lines))
                popped == [measured EXCEPT !.lines =
                              SubSeq(@, 1, Len(@) - remove_count)]
            IN adjust_scroll_after_change(
                   invalidate_scroll_metrics(PushAll(popped, kind, texts)),
                   measured.cached_max_scroll_offset)
        ) : measured \in {current_max_scroll_offset(sn)}})

scroll_line_up(sn) ==
    The({(
            IF measured.cached_max_scroll_offset = 0
            THEN [measured EXCEPT !.scroll_offset = 0]
            ELSE [measured EXCEPT !.scroll_offset =
                     Min(@ + 1, measured.cached_max_scroll_offset)]
        ) : measured \in {current_max_scroll_offset(sn)}})

scroll_line_down(sn) ==
    IF sn.scroll_offset > 0 THEN [sn EXCEPT !.scroll_offset = @ - 1] ELSE sn

scroll_page_up(sn) ==
    The({(
            LET page == Max(viewport_height(measured), 1)
            IN IF measured.cached_max_scroll_offset = 0
               THEN [measured EXCEPT !.scroll_offset = 0]
               ELSE [measured EXCEPT !.scroll_offset =
                        Min(@ + page, measured.cached_max_scroll_offset)]
        ) : measured \in {current_max_scroll_offset(sn)}})

scroll_page_down(sn) ==
    LET page == viewport_height(sn)
    IN IF sn.scroll_offset > page
       THEN [sn EXCEPT !.scroll_offset = @ - page]
       ELSE [sn EXCEPT !.scroll_offset = 0]

\* ui::SLASH_SUGGESTION_LIMIT, scaled down
SLASH_SUGGESTION_LIMIT == 2

slash_suggestion_height(sn) ==
    IF sn.slash_suggestions = <<>> THEN 0
    ELSE Min(Len(sn.slash_suggestions), SLASH_SUGGESTION_LIMIT) + 2

header_reserved_rows(sn) == Max(sn.header_rows, INLINE_HEADER_HEIGHT)

input_reserved_rows(sn) ==
    header_reserved_rows(sn) + INLINE_INPUT_HEIGHT + slash_suggestion_height(sn)

apply_transcript_rows(given, rows) ==
    The({(
            IF sn.transcript_rows # Max(rows, 1)
            THEN invalidate_scroll_metrics(
                     [sn EXCEPT !.transcript_rows = Max(rows, 1)])
            ELSE sn
        ) : sn \in {given}})

apply_transcript_width(given, width) ==
    The({(
            IF sn.transcript_width # width
            THEN invalidate_scroll_metrics([sn EXCEPT !.transcript_width = width])
            ELSE sn
        ) : sn \in {given}})

\* the 2 rows on top of the reserved ones are the borders of the transcript
recalculate_transcript_rows(given) ==
    The({(
            apply_transcript_rows(sn,
                Max(SaturatingSub(sn.view_rows, input_reserved_rows(sn) + 2), 1))
        ) : sn \in {given}})

apply_view_rows(given, rows) ==
    The({(
            enforce_scroll_bounds(recalculate_transcript_rows(
                IF sn.view_rows # Max(rows, 2)
                THEN invalidate_scroll_metrics(
                         [sn EXCEPT !.view_rows = Max(rows, 2)])
                ELSE sn))
        ) : sn \in {given}})

prepare_transcript_scroll(sn, total_rows, viewport_rows) ==
    LET max_offset == SaturatingSub(Max(total_rows, 1), Max(viewport_rows, 1))
    IN [sn EXCEPT !.scroll_offset = Min(@, max_offset),
                  !.cached_max_scroll_offset = max_offset,
                  !.scroll_metrics_dirty = FALSE]

\* render_transcript on an area whose inside is inner_height rows of
\* content_width columns
render_transcript(given, inner_height, content_width) ==
    The({(
            IF inner_height = 0 THEN sn
            ELSE IF content_width = 0
            THEN apply_transcript_rows(sn, inner_height)
            ELSE The({(
                         prepare_transcript_scroll(cached,
                             Len(Unwrap(cached.transcript_cache).flattened), inner_height)
                     ) : cached \in {cached_transcript_lines( apply_transcript_width( apply_transcript_rows(sn, inner_height), content_width), content_width)}})
        ) : sn \in {given}})

\* render on a terminal of height rows: the layout leaves the transcript
\* what the header, the suggestions, the input and the borders do not take
render(sn, height, content_width) ==
    The({(
            render_transcript(viewed,
                SaturatingSub(height, input_reserved_rows(viewed) + 2),
                content_width)
        ) : viewed \in {apply_view_rows(sn, height)}})

\* the terminals a session is drawn on
Heights == {5, 6}
Widths == {3}

\* what AppendLine, Inline and ReplaceLast carry
Kinds == {"Info", "User"}
Segments == {<<1>>, <<1, 1>>}
InlineSegments ==
    {<<Run(1)>>, <<Run(1), Control("\n"), Run(1)>>, <<Run(1), Control("\r")>>,
     <<Control("\r\n")>>}
Replacements == {<<>>, << <<1>> >>}
UserLabels == {None, Some(4)}

\* the rows of the transcript wrapped afresh at the width of the session,
\* and the largest offset they allow in its viewport
TotalRows(sn) ==
    IF sn.transcript_width = 0 THEN Len(sn.lines)
    ELSE Len(reflow_transcript_lines(sn, sn.transcript_width))

MaxOffset(sn) == SaturatingSub(TotalRows(sn), viewport_height(sn))

Touched(old, new) ==
    {i \in 1..Len(new.lines) :
        i > Len(old.lines) \/ new.lines[i] # old.lines[i]}

TuiFrame == UNCHANGED <<vars, decoderVars, reasoning_buffer, pushVars,
                        httpVars, policyVars, curatorVars, driver, terminal,
                        runVars>>

\* one operation of the session, from the session it found to the one it
\* left; an append notes the offset and the rows it found
TuiStep(op, result, event) ==
    \E after \in {result} :
        /\ after.line_revision_counter <= MaxRevisions
        /\ tui' = [after EXCEPT !.reflowed =
                      IF Touched(tui, after) = {} THEN {} ELSE @]
        /\ tui_event' = event
        /\ tui_note' =
               IF op \in {"AppendLine", "Inline"}
               THEN [op |-> op, scroll_offset |-> tui.scroll_offset,
                     rows |-> TotalRows(tui),
                     in_bounds |-> tui.scroll_offset <= MaxOffset(tui),
                     touched |-> Touched(tui, after)]
               ELSE [NoNote EXCEPT !.op = "other",
                                   !.touched = Touched(tui, after)]
        /\ TuiFrame

Begin == [tui EXCEPT !.reflowed = {}]

AppendLine ==
    \E kind \in Kinds, segments \in Segments :
        TuiStep("AppendLine", push_line(Begin, kind, segments), None)

Inline ==
    \E kind \in Kinds, segment \in InlineSegments :
        TuiStep("Inline", append_inline(Begin, kind, segment), None)

ReplaceLast ==
    \E count \in {1, 2}, texts \in Replacements :
        TuiStep("ReplaceLast", replace_last(Begin, count, "Info", texts), None)

SetMessageLabels ==
    \E user \in UserLabels :
        TuiStep("SetMessageLabels",
            invalidate_scroll_metrics([Begin EXCEPT !.labels.user = user]),
            None)

SetTheme == TuiStep("SetTheme", invalidate_transcript_cache(Begin), None)

ScrollKey ==
    \/ TuiStep("Scroll", scroll_page_up(Begin), None)
    \/ TuiStep("Scroll", scroll_page_down(Begin), None)
    \/ TuiStep("Scroll", scroll_line_up(Begin), None)
    \/ TuiStep("Scroll", scroll_line_down(Begin), None)

Resize ==
    \E rows \in Heights : TuiStep("Resize", apply_view_rows(Begin, rows), None)

Render ==
    \E width \in Widths :
        TuiStep("Render", render(Begin, tui.view_rows, width), None)

TranscriptInit ==
    /\ BridgeFresh
    /\ BackFresh
    /\ CuratorFresh(TRUE)
    /\ TuiFresh(5)
    /\ DriverFresh
    /\ RunFresh

TranscriptNext ==
    \/ AppendLine
    \/ Inline
    \/ ReplaceLast
    \/ SetMessageLabels
    \/ SetTheme
    \/ ScrollKey
    \/ Resize
    \/ Render

TranscriptSpec == TranscriptInit /\ [][TranscriptNext]_tuiVars

\* C23: after every command, scroll key and resize, scroll_offset is at most
\* the max_offset of the transcript wrapped afresh at the session's width in
\* the session's viewport.
C23_ScrollOffsetWithinBounds == tui.scroll_offset <= MaxOffset(tui)

\* C24: an append (AppendLine or Inline) that finds scroll_offset = 0 leaves
\* it at 0.
C24_AppendKeepsPinned ==
    (tui_note.op \in {"AppendLine", "Inline"} /\ tui_note.scroll_offset = 0) =>
        tui.scroll_offset = 0

\* C25: an append that finds scroll_offset > 0 (and within its bounds) and
\* adds wrapped rows leaves it larger by the number of rows added, or at
\* max_offset when that is smaller.
C25_AppendShiftsByRowsAdded ==
    (/\ tui_note.op \in {"AppendLine", "Inline"}
     /\ tui_note.scroll_offset > 0
     /\ tui_note.in_bounds
     /\ TotalRows(tui) >= tui_note.rows) =>
        tui.scroll_offset =
            Min(tui_note.scroll_offset + (TotalRows(tui) - tui_note.rows),
                MaxOffset(tui))

\* C26 (first half): whenever the session holds cached wrapped lines, they
\* are the transcript wrapped afresh at the cache's width.
CacheIsFreshReflow ==
    IsSome(tui.transcript_cache) =>
        Unwrap(tui.transcript_cache).flattened =
            reflow_transcript_lines(tui, Unwrap(tui.transcript_cache).width)

\* C26: the cache is a fresh reflow, and an operation that changed one line
\* of the transcript handed only that line to reflow_message_lines.
C26_OnlyMutatedLineReflowed ==
    /\ CacheIsFreshReflow
    /\ Cardinality(tui_note.touched) = 1 => tui.reflowed \subseteq tui_note.touched

(***************************************************************************)
(* The input line, the slash suggestions and the modal of the session.     *)
(* The input is its UTF-8 bytes, the cursor a byte offset into it.         *)
(***************************************************************************)
MaxInput == 3

\* the characters a key can type; e-acute takes two bytes
Chars == {"/", "a", " ", "e-acute"}

Utf8(ch) == IF ch = "e-acute" THEN <<"C3", "A9">> ELSE <<ch>>

IsContinuation(byte) == byte = "A9"

is_whitespace(byte) == byte = " "

\* char_indices: the byte offsets at which a character of the text starts
CharIndices(text) ==
    {i \in 0..(Len(text) - 1) : ~IsContinuation(text[i + 1])}

IsCharBoundary(text, offset) ==
    offset = 0 \/ offset = Len(text) \/ offset \in CharIndices(text)

SetMax(S) == CHOOSE x \in S : \A y \in S : y <= x
SetMin(S) == CHOOSE x \in S : \A y \in S : x <= y

\* the registry of slash commands (vtcode_core::ui::slash::SLASH_COMMANDS),
\* scaled down to four names
SLASH_COMMANDS == << <<"a">>, <<"a", "a">>, <<"a", "a", "a">>, <<"b">> >>

IsPrefix(prefix, name) ==
    Len(prefix) <= Len(name) /\ SubSeq(name, 1, Len(prefix)) = prefix

RECURSIVE SelectFrom(_, _)
SelectFrom(k, prefix) ==
    IF k > Len(SLASH_COMMANDS) THEN <<>>
    ELSE (IF IsPrefix(prefix, SLASH_COMMANDS[k]) THEN <<k>> ELSE <<>>)
         \o SelectFrom(k + 1, prefix)

\* suggestions_for: the commands whose name starts with the prefix, in
\* registry order, each as its place in the registry
suggestions_for(prefix) == SelectFrom(1, prefix)

\* the end of the command token: the first whitespace after the slash
TokenEnd(text) ==
    LET blanks == {i \in CharIndices(text) : i >= 1 /\ is_whitespace(text[i + 1])}
    IN IF blanks = {} THEN Len(text) ELSE SetMin(blanks)

starts_with_slash(text) == text # <<>> /\ Head(text) = "/"

current_slash_prefix(sn) ==
    IF ~starts_with_slash(sn.input) \/ sn.cursor = 0 THEN None
    ELSE IF sn.cursor > TokenEnd(sn.input) THEN None
    ELSE Some(SubSeq(sn.input, 2, TokenEnd(sn.input)))

slash_command_range(sn) ==
    IF ~starts_with_slash(sn.input) THEN None
    ELSE IF sn.cursor > TokenEnd(sn.input) THEN None
    ELSE Some(<<0, TokenEnd(sn.input)>>)

selected_slash_command(sn) ==
    IF IsSome(sn.slash_selected)
       /\ Unwrap(sn.slash_selected) < Len(sn.slash_suggestions)
    THEN Some(SLASH_COMMANDS[sn.slash_suggestions[Unwrap(sn.slash_selected) + 1]])
    ELSE None

preview_selected_slash_suggestion(given) ==
    The({(
            IF ~IsSome(selected_slash_command(sn))
               \/ ~IsSome(slash_command_range(sn))
            THEN sn
            ELSE LET name == Unwrap(selected_slash_command(sn))
                     range == Unwrap(slash_command_range(sn))
                     prefix == SubSeq(sn.input, 1, range[1])
                     suffix == SubSeq(sn.input, range[2] + 1, Len(sn.input))
                     named == prefix \o <<"/">> \o name
                     new_input ==
                         IF suffix = <<>> THEN named
                         ELSE IF ~is_whitespace(Head(suffix))
                         THEN named \o <<" ">> \o suffix
                         ELSE named \o suffix
                 IN [sn EXCEPT !.input = new_input,
                               !.cursor = Min(Len(named), Len(new_input))]
        ) : sn \in {given}})

apply_slash_selection(sn, index, preview) ==
    IF preview
    THEN preview_selected_slash_suggestion([sn EXCEPT !.slash_selected = index])
    ELSE [sn EXCEPT !.slash_selected = index]

clear_slash_suggestions(given) ==
    The({(
            IF sn.slash_suggestions = <<>> /\ ~IsSome(sn.slash_selected) THEN sn
            ELSE enforce_scroll_bounds(recalculate_transcript_rows(
                     apply_slash_selection(
                         [sn EXCEPT !.slash_suggestions = <<>>], None, FALSE)))
        ) : sn \in {given}})

\* ensure_slash_selection: the index the selection settles on
SettledSelection(sn) ==
    IF sn.slash_suggestions = <<>> THEN None
    ELSE IF IsSome(sn.slash_selected)
            /\ Unwrap(sn.slash_selected) < Len(sn.slash_suggestions)
    THEN sn.slash_selected
    ELSE Some(0)

ensure_slash_selection(given) ==
    The({(
            apply_slash_selection(sn, SettledSelection(sn), FALSE)
        ) : sn \in {given}})

TruncatedNot(list, limit) == list

\* Vec::truncate
Truncated(list, limit) == SubSeq(list, 1, Min(Len(list), limit))

update_slash_suggestions(given) ==
    The({(
            IF ~sn.input_enabled THEN clear_slash_suggestions(sn)
            ELSE IF ~IsSome(current_slash_prefix(sn))
            THEN clear_slash_suggestions(sn)
            ELSE LET prefix == Unwrap(current_slash_prefix(sn))
                     new_suggestions ==
                         IF prefix # <<>>
                         THEN Truncated(suggestions_for(prefix),
                                        SLASH_SUGGESTION_LIMIT)
                         ELSE suggestions_for(prefix)
                     changed == sn.slash_suggestions # new_suggestions
                     listed == [sn EXCEPT !.slash_suggestions = new_suggestions]
                     selection_changed ==
                         SettledSelection(listed) # listed.slash_selected
                 IN IF changed \/ selection_changed
                    THEN enforce_scroll_bounds(recalculate_transcript_rows(
                             ensure_slash_selection(listed)))
                    ELSE ensure_slash_selection(listed)
        ) : sn \in {given}})

move_slash_selection_up(sn) ==
    LET visible_len == Len(sn.slash_suggestions)
        new_index ==
            IF ~IsSome(sn.slash_selected) \/ sn.slash_selected = Some(0)
            THEN SaturatingSub(visible_len, 1)
            ELSE Unwrap(sn.slash_selected) - 1
    IN IF sn.slash_suggestions = <<>> \/ sn.slash_selected = Some(new_index)
       THEN [session |-> sn, handled |-> FALSE]
       ELSE [session |-> apply_slash_selection(sn, Some(new_index), TRUE),
             handled |-> TRUE]

move_slash_selection_down(sn) ==
    LET visible_len == Len(sn.slash_suggestions)
        new_index ==
            IF IsSome(sn.slash_selected)
               /\ Unwrap(sn.slash_selected) + 1 < visible_len
            THEN Unwrap(sn.slash_selected) + 1
            ELSE 0
    IN IF sn.slash_suggestions = <<>> \/ sn.slash_selected = Some(new_index)
       THEN [session |-> sn, handled |-> FALSE]
       ELSE [session |-> apply_slash_selection(sn, Some(new_index), TRUE),
             handled |-> TRUE]

apply_selected_slash_suggestion(sn) ==
    IF ~IsSome(selected_slash_command(sn)) \/ ~IsSome(slash_command_range(sn))
    THEN [session |-> sn, handled |-> FALSE]
    ELSE LET name == Unwrap(selected_slash_command(sn))
             range == Unwrap(slash_command_range(sn))
             suffix == SubSeq(sn.input, range[2] + 1, Len(sn.input))
             named == <<"/">> \o name
             spaced == IF suffix = <<>> \/ ~is_whitespace(Head(suffix))
                       THEN named \o <<" ">> ELSE named
         IN [session |->
                 update_slash_suggestions(
                     [sn EXCEPT !.input = spaced \o suffix,
                                !.cursor = Len(spaced)]),
             handled |-> TRUE]

slash_navigation_available(sn) ==
    sn.input_enabled /\ sn.slash_suggestions # <<>>

try_handle_slash_navigation(sn, key) ==
    IF ~slash_navigation_available(sn) \/ key.mods \in {"control", "alt"}
    THEN [session |-> sn, handled |-> FALSE]
    ELSE CASE key.code \in {"Up", "BackTab"} -> move_slash_selection_up(sn)
           [] key.code = "Down" -> move_slash_selection_down(sn)
           [] key.code = "Tab" -> apply_selected_slash_suggestion(sn)
           [] OTHER -> [session |-> sn, handled |-> FALSE]

insert_char(given, ch) ==
    The({(
            update_slash_suggestions(
                [sn EXCEPT !.input = SubSeq(@, 1, sn.cursor) \o Utf8(ch)
                                     \o SubSeq(@, sn.cursor + 1, Len(@)),
                           !.cursor = @ + Len(Utf8(ch))])
        ) : sn \in {given}})

\* the start of the last character before the cursor, if there is one
CharBefore(sn) ==
    LET before == {i \in CharIndices(sn.input) : i < sn.cursor}
    IN IF before = {} THEN None ELSE Some(SetMax(before))

delete_char(sn) ==
    IF sn.cursor = 0 \/ ~IsSome(CharBefore(sn)) THEN sn
    ELSE LET index == Unwrap(CharBefore(sn))
         IN update_slash_suggestions(
                [sn EXCEPT !.input = SubSeq(@, 1, index)
                                     \o SubSeq(@, sn.cursor + 1, Len(@)),
                           !.cursor = index])

move_left(sn) ==
    IF sn.cursor = 0 \/ ~IsSome(CharBefore(sn)) THEN sn
    ELSE update_slash_suggestions([sn EXCEPT !.cursor = Unwrap(CharBefore(sn))])

\* the length in bytes of the character that starts at byte offset
CharLen(text, offset) ==
    IF offset + 2 <= Len(text) /\ IsContinuation(text[offset + 2]) THEN 2 ELSE 1

\* (mutant) the cursor moves right by one byte
move_right_byte(sn) ==
    IF sn.cursor >= Len(sn.input) THEN sn
    ELSE update_slash_suggestions([sn EXCEPT !.cursor = @ + 1])

move_right(sn) ==
    IF sn.cursor >= Len(sn.input) THEN sn
    ELSE update_slash_suggestions(
             [sn EXCEPT !.cursor = @ + CharLen(sn.input, sn.cursor)])

\* the graphemes of a text: where each starts, and whether it is whitespace
RECURSIVE GraphemesFrom(_, _)
GraphemesFrom(text, offset) ==
    IF offset >= Len(text) THEN <<>>
    ELSE (IF IsContinuation(text[offset + 1]) THEN <<>>
          ELSE <<[offset |-> offset, blank |-> is_whitespace(text[offset + 1])]>>)
         \o GraphemesFrom(text, offset + 1)

Graphemes(text) == GraphemesFrom(text, 0)

RECURSIVE SkipBack(_, _, _)
SkipBack(graphemes, index, blank) ==
    IF index > 0 /\ graphemes[index].blank = blank
    THEN SkipBack(graphemes, index - 1, blank)
    ELSE index

move_left_word(sn) ==
    IF sn.cursor = 0 THEN sn
    ELSE LET graphemes == Graphemes(SubSeq(sn.input, 1, sn.cursor))
             index == SkipBack(graphemes,
                          SkipBack(graphemes, Len(graphemes), TRUE), FALSE)
         IN IF graphemes = <<>> THEN [sn EXCEPT !.cursor = 0]
            ELSE IF index < Len(graphemes)
            THEN [sn EXCEPT !.cursor = graphemes[index + 1].offset]
            ELSE [sn EXCEPT !.cursor = 0]

RECURSIVE SkipAhead(_, _, _)
SkipAhead(graphemes, index, blank) ==
    IF index < Len(graphemes) /\ graphemes[index + 1].blank = blank
    THEN SkipAhead(graphemes, index + 1, blank)
    ELSE index

move_right_word(sn) ==
    IF sn.cursor >= Len(sn.input) THEN sn
    ELSE LET graphemes ==
                 Graphemes(SubSeq(sn.input, sn.cursor + 1, Len(sn.input)))
             blanks == SkipAhead(graphemes, 0, TRUE)
             word == SkipAhead(graphemes, blanks, FALSE)
         IN IF graphemes = <<>> \/ blanks >= Len(graphemes)
            THEN [sn EXCEPT !.cursor = Len(sn.input)]
            ELSE IF blanks > 0
            THEN [sn EXCEPT !.cursor = @ + graphemes[blanks + 1].offset]
            ELSE IF word < Len(graphemes)
            THEN [sn EXCEPT !.cursor = @ + graphemes[word + 1].offset]
            ELSE [sn EXCEPT !.cursor = Len(sn.input)]

move_to_start(sn) == [sn EXCEPT !.cursor = 0]

move_to_end(sn) == [sn EXCEPT !.cursor = Len(sn.input)]

show_modal(sn) ==
    [sn EXCEPT !.modal = Some([restore_input |-> sn.input_enabled,
                               restore_cursor |-> sn.cursor_visible]),
               !.input_enabled = FALSE,
               !.cursor_visible = FALSE]

close_modal(sn) ==
    IF IsSome(sn.modal)
    THEN [sn EXCEPT !.input_enabled = Unwrap(sn.modal).restore_input,
                    !.cursor_visible = Unwrap(sn.modal).restore_cursor,
                    !.modal = None]
    ELSE sn

clear_input(sn) ==
    update_slash_suggestions([sn EXCEPT !.input = <<>>, !.cursor = 0])

Sends(sn, event) == [session |-> sn, event |-> Some(event)]
Silent(sn) == [session |-> sn, event |-> None]

\* the arms of process_key once slash navigation has declined the key
KeyArm(sn, key) ==
    CASE key.code = "Char" /\ key.mods = "control" /\ key.ch = "c" ->
             Sends(sn, "Interrupt")
      [] key.code = "Char" /\ key.mods = "control" /\ key.ch = "d" ->
             Sends(sn, "Exit")
      [] key.code = "Esc" ->
             IF IsSome(sn.modal) THEN Silent(close_modal(sn))
             ELSE Sends(sn, "Cancel")
      [] key.code = "PageUp" -> Sends(scroll_page_up(sn), "ScrollPageUp")
      [] key.code = "PageDown" -> Sends(scroll_page_down(sn), "ScrollPageDown")
      [] key.code = "Up" -> Sends(scroll_line_up(sn), "ScrollLineUp")
      [] key.code = "Down" -> Sends(scroll_line_down(sn), "ScrollLineDown")
      [] key.code = "Enter" ->
             IF sn.input_enabled
             THEN Sends(update_slash_suggestions(
                            [sn EXCEPT !.input = <<>>, !.cursor = 0]),
                        "Submit")
             ELSE Silent(sn)
      [] key.code = "Backspace" ->
             Silent(IF sn.input_enabled THEN delete_char(sn) ELSE sn)
      [] key.code = "Left" ->
             Silent(IF ~sn.input_enabled THEN sn
                    ELSE IF key.mods = "command" THEN move_to_start(sn)
                    ELSE IF key.mods = "alt" THEN move_left_word(sn)
                    ELSE move_left(sn))
      [] key.code = "Right" ->
             Silent(IF ~sn.input_enabled THEN sn
                    ELSE IF key.mods = "command" THEN move_to_end(sn)
                    ELSE IF key.mods = "alt" THEN move_right_word(sn)
                    ELSE move_right(sn))
      [] key.code = "Home" ->
             Silent(IF sn.input_enabled THEN move_to_start(sn) ELSE sn)
      [] key.code = "End" ->
             Silent(IF sn.input_enabled THEN move_to_end(sn) ELSE sn)
      [] key.code = "Char" ->
             Silent(IF sn.input_enabled /\ key.mods = "none"
                    THEN insert_char(sn, key.ch) ELSE sn)
      [] OTHER -> Silent(sn)

process_key(given, key) ==
    The({(
            The({(
                    IF navigated.handled THEN Silent(navigated.session)
                    ELSE KeyArm(sn, key)
                ) : navigated \in {try_handle_slash_navigation(sn, key)}})
        ) : sn \in {given}})

Stroke(code, mods) == [code |-> code, mods |-> mods, ch |-> "none"]

\* the keys of a terminal that the session tells apart
Keys ==
    {[code |-> "Char", mods |-> "none", ch |-> ch] : ch \in Chars}
    \cup {Stroke(code, "none") :
             code \in {"Esc", "Up", "Down", "Enter", "Backspace", "Left",
                       "Right", "Home", "End", "Tab", "BackTab"}}
    \cup {Stroke(code, mods) :
             code \in {"Left", "Right"}, mods \in {"alt", "command"}}

\* handle_event with a key press
Key ==
    \E key \in Keys :
        \E done \in {process_key(Begin, key)} :
            /\ Len(done.session.input) <= MaxInput
            /\ TuiStep(key.code, done.session, done.event)

SetInputEnabled ==
    \E value \in BOOLEAN :
        TuiStep("SetInputEnabled",
            update_slash_suggestions([Begin EXCEPT !.input_enabled = value]),
            None)

SetCursorVisible ==
    \E value \in BOOLEAN :
        TuiStep("SetCursorVisible", [Begin EXCEPT !.cursor_visible = value],
                None)

\* the contents a SetInput carries
InputContents == {<<"/">>, <<"/", "a", " ">>, <<"C3", "A9", "a">>}

SetInput ==
    \E content \in InputContents :
        TuiStep("SetInput",
            update_slash_suggestions(
                [Begin EXCEPT !.input = content, !.cursor = Len(content)]),
            None)

ClearInput == TuiStep("ClearInput", clear_input(Begin), None)

ShowModal == TuiStep("ShowModal", show_modal(Begin), None)

CloseModal == TuiStep("CloseModal", close_modal(Begin), None)

InputInit ==
    /\ BridgeFresh
    /\ BackFresh
    /\ CuratorFresh(TRUE)
    /\ TuiFresh(5)
    /\ DriverFresh
    /\ RunFresh

InputNext ==
    \/ Key
    \/ SetInputEnabled
    \/ SetCursorVisible
    \/ SetInput
    \/ ClearInput
    \/ ShowModal
    \/ CloseModal

InputSpec == InputInit /\ [][InputNext]_tuiVars

\* C27: while a modal is open, input_enabled is false, whatever commands and
\* keys came before
C27_ModalDisablesInput == IsSome(tui.modal) => ~tui.input_enabled

\* what closing the modal will put back
Saved(sn) ==
    [input_enabled |-> Unwrap(sn.modal).restore_input,
     cursor_visible |-> Unwrap(sn.modal).restore_cursor]

Current(sn) ==
    [input_enabled |-> sn.input_enabled, cursor_visible |-> sn.cursor_visible]

\* C37: closing the modal puts back the values input_enabled and
\* cursor_visible had before the first ShowModal. Step by step: the step
\* that opens a modal saves the values it finds, a step that finds a modal
\* open and leaves one open (a second ShowModal) leaves the saved values
\* alone, and the step that closes the modal puts the saved values back.
C37_CloseRestoresValuesBeforeFirstShow ==
    [][/\ (tui.modal = None /\ IsSome(tui'.modal)) =>
              Saved(tui') = Current(tui)
       /\ (IsSome(tui.modal) /\ IsSome(tui'.modal)) =>
              Saved(tui') = Saved(tui)
       /\ (IsSome(tui.modal) /\ tui'.modal = None) =>
              Current(tui') = Saved(tui)]_tuiVars

\* the same without the second ShowModal
CloseRestoresValuesBeforeShow ==
    [][/\ (tui.modal = None /\ IsSome(tui'.modal)) =>
              Saved(tui') = Current(tui)
       /\ (IsSome(tui.modal) /\ tui'.modal = None) =>
              Current(tui') = Saved(tui)]_tuiVars

\* C40: after any sequence of keys and commands the cursor is a character
\* boundary of the input, with 0 <= cursor <= len(input)
C40_CursorOnCharBoundary ==
    /\ 0 <= tui.cursor
    /\ tui.cursor <= Len(tui.input)
    /\ IsCharBoundary(tui.input, tui.cursor)

\* the cursor stands between a two-byte character and the character after it
C40_CursorBehindTwoBytes ==
    /\ Len(tui.input) = 3
    /\ tui.input[1] = "C3"
    /\ tui.cursor = 2

\* C28: suggestions are listed only while the input begins with '/' and the
\* cursor has not passed the end of the command token
C28_SuggestionsOnlyInCommandToken ==
    tui.slash_suggestions # <<>> =>
        /\ starts_with_slash(tui.input)
        /\ tui.cursor <= TokenEnd(tui.input)

\* C29, as stated: the list never holds more than SLASH_SUGGESTION_LIMIT
\* entries
C29_ListWithinLimit == Len(tui.slash_suggestions) <= SLASH_SUGGESTION_LIMIT

\* C29, amended: a list of more than SLASH_SUGGESTION_LIMIT entries is the
\* whole registry, listed for an empty prefix
C29_ListWithinLimitUnlessBareSlash ==
    Len(tui.slash_suggestions) > SLASH_SUGGESTION_LIMIT =>
        tui.slash_suggestions = suggestions_for(<<>>)

\* a prefix with more matches than the limit, and the list cut to the limit
C29_TruncatedList ==
    /\ IsSome(current_slash_prefix(tui))
    /\ IF IsSome(current_slash_prefix(tui))
       THEN /\ Unwrap(current_slash_prefix(tui)) # <<>>
            /\ Len(suggestions_for(Unwrap(current_slash_prefix(tui))))
                   > SLASH_SUGGESTION_LIMIT
       ELSE FALSE
    /\ Len(tui.slash_suggestions) = SLASH_SUGGESTION_LIMIT

\* ---------------------------------------------------------------------
\* The terminal driver: drive_terminal, the command channel and the
\* channel of the input thread. Of the session the loop reads needs_redraw
\* and should_exit only; shutdown_handled records that handle_command got
\* a Shutdown.

\* the most messages a channel holds at a time
MaxQueued == 2

InlineCommands == {"Shutdown", "Other"}

DriverFrame == UNCHANGED <<vars, decoderVars, reasoning_buffer, pushVars,
                          httpVars, policyVars, curatorVars, tuiVars,
                          terminal, runVars>>

\* Session::handle_command as the loop sees it
handle_command(d, command) ==
    [d EXCEPT !.should_exit = @ \/ command = "Shutdown",
              !.shutdown_handled = @ \/ command = "Shutdown",
              !.needs_redraw = TRUE]

\* `if session.take_redraw() { terminal.draw(..)? }`; a draw that fails
\* ends drive_terminal with the error
Redrawn(d, draw_ok) ==
    IF d.needs_redraw
    THEN [d EXCEPT !.needs_redraw = FALSE,
                   !.pc = IF draw_ok THEN @ ELSE "failed"]
    ELSE d

\* `if session.should_exit() { break 'main; }`, else on to next
ExitCheck(d, next) ==
    IF d.pc = "failed" THEN d
    ELSE IF d.should_exit THEN [d EXCEPT !.pc = "returned"]
    ELSE [d EXCEPT !.pc = next]

\* a task that holds a sender sends a command
SendCommand ==
    /\ driver.commands_open
    /\ Len(driver.commands) < MaxQueued
    /\ \E command \in InlineCommands :
           driver' = [driver EXCEPT !.commands = Append(@, command)]
    /\ DriverFrame

\* the last sender of the command channel is dropped
CloseCommands ==
    /\ driver.commands_open
    /\ driver' = [driver EXCEPT !.commands_open = FALSE]
    /\ DriverFrame

\* the input thread forwards an event
SendInput ==
    /\ driver.inputs_open
    /\ driver.inputs < MaxQueued
    /\ driver' = [driver EXCEPT !.inputs = @ + 1]
    /\ DriverFrame

\* the input thread ends on a failed poll or read, and drops its sender
CloseInputs ==
    /\ driver.inputs_open
    /\ driver' = [driver EXCEPT !.inputs_open = FALSE]
    /\ DriverFrame

\* commands.try_recv() gives Ok(command)
DrainCommand ==
    /\ driver.pc = "drain"
    /\ driver.commands # <<>>
    /\ driver' = handle_command([driver EXCEPT !.commands = Tail(@)],
                                Head(driver.commands))
    /\ DriverFrame

\* commands.try_recv() gives Empty: redraw, exit check, on to the select
DrainEmpty ==
    /\ driver.pc = "drain"
    /\ driver.commands = <<>>
    /\ driver.commands_open
    /\ \E draw_ok \in BOOLEAN :
           driver' = ExitCheck(Redrawn(driver, draw_ok), "select")
    /\ DriverFrame

\* commands.try_recv() gives Disconnected: session.request_exit()
DrainDisconnected ==
    /\ driver.pc = "drain"
    /\ driver.commands = <<>>
    /\ ~driver.commands_open
    /\ \E draw_ok \in BOOLEAN :
           driver' = ExitCheck(
                         Redrawn([driver EXCEPT !.should_exit = TRUE], draw_ok),
                         "select")
    /\ DriverFrame

\* inputs.recv() gives Some(event): handle_event, which marks the session
\* dirty or not as the event goes, then the redraw and the exit check
RecvEvent ==
    /\ driver.pc = "select"
    /\ driver.inputs > 0
    /\ \E dirties, draw_ok \in BOOLEAN :
           driver' = ExitCheck(
                         Redrawn([driver EXCEPT !.inputs = @ - 1,
                                                !.needs_redraw = @ \/ dirties],
                                 draw_ok),
                         "drain")
    /\ DriverFrame

\* inputs.recv() gives None: the input thread is gone
RecvNone ==
    /\ driver.pc = "select"
    /\ driver.inputs = 0
    /\ ~driver.inputs_open
    /\ driver' = IF ~driver.commands_open
                 THEN [driver EXCEPT !.pc = "returned"]
                 ELSE ExitCheck(driver, "drain")
    /\ DriverFrame

\* the sleep of INPUT_POLL_INTERVAL_MS ends before an event comes
PollTimeout ==
    /\ driver.pc = "select"
    /\ driver.inputs = 0
    /\ driver.inputs_open
    /\ driver' = ExitCheck(driver, "drain")
    /\ DriverFrame

DriverInit == BridgeFresh /\ CoreFresh

DriverNext ==
    \/ SendCommand
    \/ CloseCommands
    \/ SendInput
    \/ CloseInputs
    \/ DrainCommand
    \/ DrainEmpty
    \/ DrainDisconnected
    \/ RecvEvent
    \/ RecvNone
    \/ PollTimeout

DriverSpec == DriverInit /\ [][DriverNext]_driver

\* C30: drive_terminal returns from its loop only after the session has
\* handled a Shutdown command, whichever channel closes
C30_LeavesOnlyAfterShutdown ==
    driver.pc = "returned" => driver.shutdown_handled

\* the half of C30 about the input channel: while the command channel is
\* open, the loop is left only after a Shutdown
DriverRunsWhileCommandsOpen ==
    (driver.pc = "returned" /\ driver.commands_open) => driver.shutdown_handled

\* the loop goes round with the input channel closed and commands open
DriverSpinsWithoutInput ==
    /\ driver.pc = "drain"
    /\ ~driver.inputs_open
    /\ driver.inputs = 0
    /\ driver.commands_open
    /\ ~driver.needs_redraw

\* ---------------------------------------------------------------------
\* run_tui: what it acquires before drive_terminal and what it releases
\* after. The release calls themselves are taken to succeed.

TerminalFrame == UNCHANGED <<vars, decoderVars, reasoning_buffer, pushVars,
                            httpVars, policyVars, curatorVars, tuiVars,
                            runVars>>

\* how the calls before drive_terminal can go: the first of them that fails
SetupOutcomes ==
    {"raw_mode_fails", "alternate_fails", "terminal_fails", "hide_cursor_fails",
     "clear_fails", "ok"}

\* each `?` before drive_terminal returns the error at once
setup(t, outcome) ==
    LET raw == outcome # "raw_mode_fails"
        entered == raw /\ t.use_alternate /\ outcome # "alternate_fails"
        created == /\ raw
                   /\ outcome # "terminal_fails"
                   /\ (t.use_alternate => entered)
        hidden == created /\ outcome # "hide_cursor_fails"
        cleared == hidden /\ outcome # "clear_fails"
    IN [t EXCEPT !.raw_mode = raw,
                 !.raw_mode_enabled = raw,
                 !.alternate_screen = entered,
                 !.cursor_hidden = hidden,
                 !.pc = IF cleared THEN "drive" ELSE "done",
                 !.result = IF cleared THEN "none" ELSE "err"]

\* finalize_terminal, LeaveAlternateScreen if the surface uses it,
\* disable_raw_mode, then the result of drive_terminal
release(t, drive_result) ==
    [t EXCEPT !.cursor_hidden = FALSE,
              !.finalized = TRUE,
              !.alternate_screen = IF t.use_alternate THEN FALSE ELSE @,
              !.raw_mode = FALSE,
              !.pc = "done",
              !.result = drive_result]

\* run_tui up to the call of drive_terminal
Setup ==
    /\ terminal.pc = "setup"
    /\ \E outcome \in SetupOutcomes :
           /\ (outcome = "alternate_fails" => terminal.use_alternate)
           /\ terminal' = setup(terminal, outcome)
    /\ driver' = driver
    /\ TerminalFrame

\* drive_terminal at work
Driving ==
    /\ terminal.pc = "drive"
    /\ DriverNext

\* run_tui from the return of drive_terminal on
Release ==
    /\ terminal.pc = "drive"
    /\ driver.pc \in {"returned", "failed"}
    /\ terminal' = release(terminal,
                           IF driver.pc = "returned" THEN "ok" ELSE "err")
    /\ driver' = driver
    /\ TerminalFrame

RunTuiInit ==
    /\ BridgeFresh
    /\ BackFresh
    /\ CuratorFresh(TRUE)
    /\ TuiFresh(5)
    /\ driver = NewDriver
    /\ RunFresh
    /\ \E use_alternate \in BOOLEAN : terminal = NewTerminal(use_alternate)

RunTuiNext == Setup \/ Driving \/ Release

RunTuiSpec == RunTuiInit /\ [][RunTuiNext]_<<driver, terminal>>

\* C31: when run_tui has returned after raw mode was enabled, raw mode is
\* disabled, the alternate screen is left, and finalize_terminal has shown
\* the cursor, cleared and flushed
C31_ReleasedOnEveryExit ==
    (terminal.pc = "done" /\ terminal.raw_mode_enabled) =>
        /\ ~terminal.raw_mode
        /\ ~terminal.alternate_screen
        /\ terminal.finalized

\* ---------------------------------------------------------------------
\* The bridge again: histories at the return of a prompt request.

\* every tool call of an assistant message of the history is followed by a
\* Tool message with its id
Answered(history) ==
    \A i \in 1..Len(history) :
        \A k \in 1..Len(history[i].tool_calls) :
            \E j \in (i + 1)..Len(history) :
                /\ history[j].role = "Tool"
                /\ history[j].tool_call_id = history[i].tool_calls[k]

\* the step in which the handler of p returns
Returns(p) == task[p].pc # "done" /\ (task[p].pc = "done")'

\* C32: when a prompt request returns, with a stop reason or with an error,
\* every tool call in the history of its session is followed by a Tool
\* message with the same id
C32_ReturnLeavesCallsAnswered ==
    [][\A p \in Prompts :
          Returns(p) => Answered(messages[task[p].session])']_vars

\* no other request of the session of p is under way
Alone(p) ==
    \A q \in Prompts \ {p} :
        task[q].pc \in {"idle", "done"} \/ task[q].session # task[p].session

\* what holds of C32: a request that returns while no other request of its
\* session is under way leaves every tool call answered
ReturnAloneLeavesCallsAnswered ==
    [][\A p \in Prompts :
          (Returns(p) /\ Alone(p)) => Answered(messages[task[p].session])']_vars

\* ---------------------------------------------------------------------
\* The tools loop of prompt as one turn goes through it, from await to
\* await, with tools allowed. The history is left out; rounds counts the
\* responses with tool calls, MaxRounds standing for that many or more.

MaxRounds == 2

TurnFrame == UNCHANGED <<vars, decoderVars, reasoning_buffer, pushVars,
                         httpVars, policyVars, curatorVars, tuiVars, driver,
                         terminal, io_task>>

\* the tool calls of one response
CallLists ==
    UNION {[1..n -> CallShapes] : n \in 1..MaxCalls}

\* execute_tool_calls from the report of a call on: execute_tool awaits
\* read_text_file when it has a path, any other report goes out at once
ExecuteCall(t) ==
    LET call == Head(t.calls) IN
    IF /\ t.override = "none"
       /\ ArgsParse(call.arguments)
       /\ Lookup(call.name)
       /\ call.arguments # "nopath"
    THEN [t EXCEPT !.pc = "read"]
    ELSE [t EXCEPT !.pc = "terminal"]

\* from the permission decision on: InProgress first for a call that runs
AfterDecision(t) ==
    IF SendsInProgress(Head(t.calls).name, t.override)
    THEN [t EXCEPT !.pc = "progress"]
    ELSE ExecuteCall(t)

\* provider.generate fails: `?`
TurnGenerateFails ==
    /\ turn.pc = "gen"
    /\ turn' = [turn EXCEPT !.pc = "done", !.result = "InternalError"]
    /\ TurnFrame

\* the response carries tool calls: assistant_with_tools is pushed and
\* execute_tool_calls sends ToolCall(Pending) for the first call
TurnGenerateToolCalls ==
    /\ turn.pc = "gen"
    /\ \E calls \in CallLists :
           turn' = [turn EXCEPT !.pc = "pending", !.calls = calls,
                                !.override = "none",
                                !.rounds = Min(@ + 1, MaxRounds)]
    /\ TurnFrame

\* the response carries no tool call: content and reasoning are sent if they
\* are not empty, and the loop is left
TurnGenerateFinal ==
    /\ turn.pc = "gen"
    /\ \E content, reasoning \in BOOLEAN, finish \in FinishReasons :
           turn' = [turn EXCEPT
                       !.pc = IF content THEN "content"
                              ELSE IF reasoning THEN "reason" ELSE "done",
                       !.reasoning = reasoning,
                       !.result = stop_reason_from_finish(finish)]
    /\ TurnFrame

\* the Pending update was forwarded: the permission request, if the tool is
\* known and its arguments parse
TurnPendingAck ==
    /\ turn.pc = "pending"
    /\ turn' = IF /\ Lookup(Head(turn.calls).name)
                  /\ ArgsParse(Head(turn.calls).arguments)
               THEN [turn EXCEPT !.pc = "permission"]
               ELSE AfterDecision(turn)
    /\ TurnFrame

\* client.request_permission returns
TurnPermissionReturn ==
    /\ turn.pc = "permission"
    /\ \E outcome \in PermissionOutcomes :
           turn' = AfterDecision(
                       [turn EXCEPT !.override = PermissionOverride(outcome)])
    /\ TurnFrame

\* the InProgress update was forwarded
TurnInProgressAck ==
    /\ turn.pc = "progress"
    /\ turn' = ExecuteCall(turn)
    /\ TurnFrame

\* read_text_file returns, with the text or with an error
TurnReadReturn ==
    /\ turn.pc = "read"
    /\ turn' = [turn EXCEPT !.pc = "terminal"]
    /\ TurnFrame

\* the final update of a call was forwarded: the next call, or after the
\* last one the tool responses are pushed and the loop goes round (continue)
TurnTerminalAck ==
    /\ turn.pc = "terminal"
    /\ turn' = IF Len(turn.calls) > 1
               THEN [turn EXCEPT !.pc = "pending", !.calls = Tail(@),
                                 !.override = "none"]
               ELSE [turn EXCEPT !.pc = "gen", !.calls = <<>>,
                                 !.override = "none"]
    /\ TurnFrame

\* the AgentMessageChunk of the content was forwarded
TurnContentAck ==
    /\ turn.pc = "content"
    /\ turn' = [turn EXCEPT !.pc = IF turn.reasoning THEN "reason" ELSE "done"]
    /\ TurnFrame

\* the AgentThoughtChunk of the reasoning was forwarded
TurnReasonAck ==
    /\ turn.pc = "reason"
    /\ turn' = [turn EXCEPT !.pc = "done"]
    /\ TurnFrame

TurnInit == BridgeFresh /\ CoreFresh

TurnNext ==
    \/ TurnGenerateFails
    \/ TurnGenerateToolCalls
    \/ TurnGenerateFinal
    \/ TurnPendingAck
    \/ TurnPermissionReturn
    \/ TurnInProgressAck
    \/ TurnReadReturn
    \/ TurnTerminalAck
    \/ TurnContentAck
    \/ TurnReasonAck

\* every provider call and every client call the turn awaits returns
TurnLive == TurnInit /\ [][TurnNext]_turn /\ WF_turn(TurnNext)

\* C33: the prompt request returns in the end, whatever the provider answers
C33_PromptReturns == <>(turn.pc = "done")

\* ---------------------------------------------------------------------
\* run_zed_agent: the bridge lives as long as io_task. When the connection
\* closes io_task ends: notifications.abort() follows and run_until returns
\* at once, so that no task of the local set is polled again; the tasks are
\* dropped with the local set.

\* the prompt task p is inside send_update, awaiting completion_rx
InSendUpdate(p) == task[p].pc \in SendWaits

\* io_task.await returns
ConnectionCloses ==
    /\ io_task = "running"
    /\ io_task' = "ended"
    /\ UNCHANGED <<vars, decoderVars, reasoning_buffer, pushVars, httpVars,
                   policyVars, curatorVars, tuiVars, driver, terminal, turn>>

\* the prompt requests of a run of the bridge to its end
MaxLivePrompts == 1
LivePrompts == {p \in Prompts : p <= MaxLivePrompts}

\* a step of a task of the local set: it is taken while run_until is pending
Open(step) == io_task = "running" /\ step

\* what the local set runs
Running ==
    \/ Open(NewSession)
    \/ Open(Cancel)
    \/ Open(ForwarderRecv)
    \/ Open(ForwarderDone)
    \/ \E p \in LivePrompts :
        \/ Open(PromptStart(p))
        \/ Open(ResolveDone(p))
        \/ Open(NoticeAck(p))
        \/ Open(GenerateFails(p))
        \/ Open(GenerateToolCalls(p))
        \/ Open(GenerateFinal(p))
        \/ Open(GenContentAck(p))
        \/ Open(GenReasonAck(p))
        \/ Open(PendingAck(p))
        \/ Open(PermissionReturn(p))
        \/ Open(InProgressAck(p))
        \/ Open(ReadReturn(p))
        \/ Open(TerminalAck(p))
        \/ Open(StreamOpenFails(p))
        \/ Open(StreamOpened(p))
        \/ Open(StreamEnds(p))
        \/ Open(StreamFails(p))
        \/ Open(StreamToken(p))
        \/ Open(StreamReasoning(p))
        \/ Open(ChunkAck(p))
        \/ Open(StreamCompleted(p))
        \/ Open(CompletedContentAck(p))
        \/ Open(CompletedReasonAck(p))

BridgeNext ==
    \/ Running
    \/ ConnectionCloses

\* the local set polls every task that can run, the forwarder among them
BridgeLive ==
    /\ Init
    /\ [][BridgeNext]_<<vars, io_task>>
    /\ WF_<<vars, io_task>>(Running)

====
